---------------------------- MODULE Spec2Model ----------------------------
(***************************************************************************)
(* Model of the data-quality analyser of src/app/analizador.py             *)
(* (class AnalizadorCalidadDatos) and of the session of the page of         *)
(* src/app/main.py.                                                         *)
(*                                                                         *)
(* A DataFrame is modelled as a sequence of column names and a sequence of *)
(* blocks; a block is one row together with the number of consecutive       *)
(* copies of it (run-length encoding), so that sheets of 20 and more rows   *)
(* stay small.  Text is a sequence of one-character strings, so that        *)
(* strip(), lower(), "in" and len() are computed and not assumed.  Python   *)
(* floats are modelled as exact rationals <<numerator, denominator>>.       *)
(***************************************************************************)
EXTENDS Integers, Sequences, FiniteSets, TLC

VARIABLES
    info_archivo,        \* the argument of analizar_archivo_completo
    resultado_analisis,  \* the report the last run returned
    lecturas,            \* what pd.Timestamp.now() returned for each sheet of that run
    anterior,            \* the report and the clock readings of the run before it
    corridas,            \* number of runs made on this input
    df,                  \* the DataFrame given to the per-sheet functions
    metricas_hoja,       \* result of _calcular_metricas_calidad_hoja(df)
    problemas_hoja,      \* result of _detectar_problemas_hoja(df)
    previa,              \* the metrics of the sheet before the last edit
    edicion,             \* the last edit applied to df
    session_state,       \* st.session_state of the page: the four keys of the analysis
    ultimo               \* how the last handler of the page ended

vars == <<info_archivo, resultado_analisis, lecturas, anterior, corridas,
          df, metricas_hoja, problemas_hoja, previa, edicion, session_state, ultimo>>

NADA == [k |-> "nada"]

-----------------------------------------------------------------------------
(* Exact rational arithmetic standing for Python float arithmetic.         *)

Abs(x) == IF x < 0 THEN -x ELSE x

RECURSIVE GCD(_, _)
GCD(a, b) == IF b = 0 THEN a ELSE GCD(b, a % b)

Rat(n, d) ==
    LET g == GCD(Abs(n), Abs(d))
        s == IF d < 0 THEN -1 ELSE 1
    IN  <<(s * n) \div g, (s * d) \div g>>

RInt(n) == <<n, 1>>
RAdd(a, b) == Rat(a[1] * b[2] + b[1] * a[2], a[2] * b[2])
RSub(a, b) == Rat(a[1] * b[2] - b[1] * a[2], a[2] * b[2])
RMul(a, b) == Rat(a[1] * b[1], a[2] * b[2])
RDiv(a, b) == Rat(a[1] * b[2], a[2] * b[1])
RLe(a, b) == a[1] * b[2] <= b[1] * a[2]
RLt(a, b) == a[1] * b[2] < b[1] * a[2]
\* Python's min(a, b) and max(a, b): the first argument wins a tie.
RMin(a, b) == IF RLt(b, a) THEN b ELSE a
RMax(a, b) == IF RLt(a, b) THEN b ELSE a

RECURSIVE RSum(_)
RSum(s) == IF s = <<>> THEN RInt(0) ELSE RAdd(Head(s), RSum(Tail(s)))

\* numpy.mean of a non-empty list
Mean(s) == RDiv(RSum(s), RInt(Len(s)))

RECURSIVE SumaSeq(_)
SumaSeq(s) == IF s = <<>> THEN 0 ELSE Head(s) + SumaSeq(Tail(s))

RECURSIVE Concat(_)
Concat(ss) == IF ss = <<>> THEN <<>> ELSE Head(ss) \o Concat(Tail(ss))

Primeros(s, n) == SubSeq(s, 1, IF Len(s) < n THEN Len(s) ELSE n)

-----------------------------------------------------------------------------
(* Text: a Python str is a sequence of one-character strings.  The three   *)
(* non-ASCII characters of patrones_error and the accented i are written    *)
(* as the atoms "micro", "cent", "coma_baja" and "i_acento".                *)

Mayusculas == <<"A", "B", "C", "D", "E", "F", "G", "H", "I", "J", "K", "L", "M",
                "N", "O", "P", "Q", "R", "S", "T", "U", "V", "W", "X", "Y", "Z">>
Minusculas == <<"a", "b", "c", "d", "e", "f", "g", "h", "i", "j", "k", "l", "m",
                "n", "o", "p", "q", "r", "s", "t", "u", "v", "w", "x", "y", "z">>
Digitos == <<"0", "1", "2", "3", "4", "5", "6", "7", "8", "9">>

Rango(s) == {s[i] : i \in DOMAIN s}

EnMinuscula == [c \in Rango(Mayusculas) |->
                    Minusculas[CHOOSE i \in DOMAIN Mayusculas : Mayusculas[i] = c]]
LowerChar(c) == IF c \in DOMAIN EnMinuscula THEN EnMinuscula[c] ELSE c

\* str.lower()
Lower(s) == [i \in DOMAIN s |-> LowerChar(s[i])]

\* str.strip(): leading and trailing blanks removed
RECURSIVE LStrip(_)
LStrip(s) == IF s # <<>> /\ Head(s) = " " THEN LStrip(Tail(s)) ELSE s
RECURSIVE RStrip(_)
RStrip(s) ==
    IF s # <<>> /\ s[Len(s)] = " " THEN RStrip(SubSeq(s, 1, Len(s) - 1)) ELSE s
Strip(s) == RStrip(LStrip(s))

\* Python's "pat in s" for strings
Contiene(pat, s) ==
    \E i \in 0..(Len(s) - Len(pat)) : SubSeq(s, i + 1, i + Len(pat)) = pat

\* str.replace(pat, rep), pat non-empty: leftmost non-overlapping occurrences
RECURSIVE Reemplazar(_, _, _)
Reemplazar(s, pat, rep) ==
    IF Len(s) < Len(pat) THEN s
    ELSE IF SubSeq(s, 1, Len(pat)) = pat
         THEN rep \o Reemplazar(SubSeq(s, Len(pat) + 1, Len(s)), pat, rep)
         ELSE <<Head(s)>> \o Reemplazar(Tail(s), pat, rep)

\* the character classes of str.isdigit(), str.isupper(), str.islower()
LetrasMayusculas == Rango(Mayusculas)
LetrasMinusculas == Rango(Minusculas)
Cifras == Rango(Digitos)

\* str(n) of a Python int
RECURSIVE DigitosDe(_)
DigitosDe(n) ==
    IF n < 10 THEN <<Digitos[n + 1]>>
    ELSE DigitosDe(n \div 10) \o <<Digitos[(n % 10) + 1]>>
IntToStr(n) == IF n < 0 THEN <<"-">> \o DigitosDe(-n) ELSE DigitosDe(n)

\* re.match(r'^[a-zA-Z0-9._%+-]+@[a-zA-Z0-9.-]+\.[a-zA-Z]{2,}$', s)
Letras == LetrasMayusculas \cup LetrasMinusculas
EmailValido(s) ==
    LET EmailLocal == Letras \cup Cifras \cup {".", "_", "%", "+", "-"}
        EmailDominio == Letras \cup Cifras \cup {".", "-"}
    IN
    \E i, j \in DOMAIN s :
        /\ i > 1 /\ s[i] = "@" /\ Rango(SubSeq(s, 1, i - 1)) \subseteq EmailLocal
        /\ j > i + 1 /\ s[j] = "."
        /\ Rango(SubSeq(s, i + 1, j - 1)) \subseteq EmailDominio
        /\ Len(s) - j >= 2 /\ Rango(SubSeq(s, j + 1, Len(s))) \subseteq Letras

-----------------------------------------------------------------------------
(* The string literals of analizador.py.                                   *)

K_fecha == <<"f", "e", "c", "h", "a">>
K_codigo == <<"c", "o", "d", "i", "g", "o">>
K_telefono == <<"t", "e", "l", "e", "f", "o", "n", "o">>
K_celular == <<"c", "e", "l", "u", "l", "a", "r">>
K_email == <<"e", "m", "a", "i", "l">>
K_correo == <<"c", "o", "r", "r", "e", "o">>
K_documento == <<"d", "o", "c", "u", "m", "e", "n", "t", "o">>
K_id_estudiante == <<"i", "d", "_", "e", "s", "t", "u", "d", "i", "a", "n", "t", "e">>
T_interrogacion == <<"?", "?">>
T_na == <<"n", "a">>
T_null == <<"n", "u", "l", "l">>
T_hoy == <<"h", "o", "y">>
T_bUD == <<"b", "U", "D">>
T_2025_1 == <<"2", "0", "2", "5", "-", "1">>
T_vacio == <<>>

-----------------------------------------------------------------------------
(* Cell values, column labels and DataFrames.                              *)

Nulo == [k |-> "nulo"]                        \* NaN / None / NaT
Txt(s) == [k |-> "txt", s |-> s]              \* a Python str
Num(n) == [k |-> "num", n |-> n]              \* a number
Ts(dia, s) == [k |-> "ts", dia |-> dia, s |-> s]   \* a Timestamp: day number, str()
Obj == [k |-> "obj"]                          \* the unhashable object [1] (a list)

Nombre(s) == [texto |-> TRUE, s |-> s]        \* a str column label
NombreEntero(n) == [texto |-> FALSE, n |-> n] \* an int column label (header 2024)


\* len(df), len(df.columns)
NFilas(d) == SumaSeq([b \in DOMAIN d.bloques |-> d.bloques[b].n])
NCols(d) == Len(d.columnas)
Cols(d) == 1..NCols(d)
Bloques(d) == DOMAIN d.bloques
Celda(d, b, c) == d.bloques[b].celdas[c]

\* pd.isna(valor) / pd.notna(valor)
isna(v) == v.k = "nulo"

\* df[col].dtype: the kinds of the non-null cells of the column decide it
ClasesCol(d, c) == {Celda(d, b, c).k : b \in Bloques(d)} \ {"nulo"}
EsObject(d, c) ==
    ClasesCol(d, c) \cap {"txt", "obj"} # {} \/ Cardinality(ClasesCol(d, c)) > 1

\* str(valor) of a cell of column c: a number of a float64 column prints "7.0"
StrValor(d, c, v) ==
    CASE v.k = "txt" -> v.s
      [] v.k = "num" -> IF /\ ClasesCol(d, c) = {"num"}
                           /\ \E b \in Bloques(d) : isna(Celda(d, b, c))
                        THEN IntToStr(v.n) \o <<".", "0">>
                        ELSE IntToStr(v.n)
      [] v.k = "ts"  -> v.s
      [] v.k = "obj" -> <<"[", "1", "]">>

\* df[col].dropna(): the non-null cells in row order, each with its number
\* of consecutive copies
RECURSIVE NoNulosDesde(_, _, _)
NoNulosDesde(d, c, b) ==
    IF b > Len(d.bloques) THEN <<>>
    ELSE (IF isna(Celda(d, b, c)) THEN <<>>
          ELSE <<[v |-> Celda(d, b, c), n |-> d.bloques[b].n]>>)
         \o NoNulosDesde(d, c, b + 1)
dropna(d, c) == NoNulosDesde(d, c, 1)

\* len(serie) and the number of distinct values of a serie of weighted values
LenSerie(vs) == SumaSeq([i \in DOMAIN vs |-> vs[i].n])
Distintos(vs) == Cardinality({vs[i].v : i \in DOMAIN vs})
\* sum(1 for v in serie if P(v)), and the sum of a per-value deduction
Cuenta(vs, P(_)) == SumaSeq([i \in DOMAIN vs |-> IF P(vs[i].v) THEN vs[i].n ELSE 0])
Suma(vs, F(_)) == SumaSeq([i \in DOMAIN vs |-> vs[i].n * F(vs[i].v)])

\* col.lower(): raises AttributeError on a label that is not a str
LowerNombre(nom) == Lower(nom.s)

\* pd.to_datetime(texto): the dates the model's values print as; the empty
\* string gives NaT; every other text of the model's values is rejected
\* (dateutil raises)
T_2010_05_01 == <<"2", "0", "1", "0", "-", "0", "5", "-", "0", "1", " ",
                  "0", "0", ":", "0", "0", ":", "0", "0">>
T_1930_01_01 == <<"1", "9", "3", "0", "-", "0", "1", "-", "0", "1", " ",
                  "0", "0", ":", "0", "0", ":", "0", "0">>
FechasTexto == {[s |-> T_2010_05_01, dia |-> 0], [s |-> T_1930_01_01, dia |-> -29340]}
to_datetime(s) ==
    IF s = <<>> THEN [r |-> "NaT"]
    ELSE IF \E f \in FechasTexto : f.s = s
         THEN [r |-> "ok", dia |-> (CHOOSE f \in FechasTexto : f.s = s).dia]
         ELSE [r |-> "error"]

-----------------------------------------------------------------------------
(* _calcular_metricas_calidad_hoja                                          *)

Max(a, b) == IF a > b THEN a ELSE b
Min(a, b) == IF a < b THEN a ELSE b

\* the value every branch of lines 153-159 tests: a str that is empty,
\* blank, '??' or one of n/a, na, null, none in any letter case
EsTextoProblematico(s) ==
    LET valor_limpio == Strip(s)
    IN  \/ valor_limpio = T_vacio
        \/ valor_limpio = T_interrogacion
        \/ Lower(valor_limpio) \in {<<"n", "/", "a">>, T_na, T_null, <<"n", "o", "n", "e">>}
        \/ Len(valor_limpio) = 0

CeldaProblematica(v) ==
    IF isna(v) THEN TRUE
    ELSE IF v.k = "txt" THEN EsTextoProblematico(v.s)
    ELSE FALSE

\* The count with the str branch of lines 153-159 left out: nulls only
celdas_solo_nulas(d) ==
    SumaSeq([c \in Cols(d) |-> NFilas(d) - LenSerie(dropna(d, c))])

celdas_problematicas(d) ==
    SumaSeq([c \in Cols(d) |->
        SumaSeq([b \in Bloques(d) |->
            IF CeldaProblematica(Celda(d, b, c)) THEN d.bloques[b].n ELSE 0])])

\* 1. COMPLETITUD
completitud_hoja(d) ==
    LET total_celdas == NFilas(d) * NCols(d)
    IN  IF total_celdas > 0
        THEN RMax(RInt(0), RMul(Rat(total_celdas - celdas_problematicas(d), total_celdas),
                                RInt(100)))
        ELSE RInt(100)

\* The chain with the phone branch tested before the date branch
RolTelefonoPrimero(col_lower) ==
    IF Contiene(K_telefono, col_lower) \/ Contiene(K_celular, col_lower) THEN "telefono"
    ELSE IF Contiene(K_fecha, col_lower) THEN "fecha"
    ELSE IF Contiene(K_codigo, col_lower) \/ Contiene(<<"i", "d", "_">>, col_lower) THEN "codigo"
    ELSE IF Contiene(<<"g", "e", "n", "e", "r", "o">>, col_lower) THEN "genero"
    ELSE IF Contiene(K_email, col_lower) \/ Contiene(K_correo, col_lower) THEN "email"
    ELSE IF \/ Contiene(<<"s", "e", "d", "e">>, col_lower)
            \/ Contiene(<<"i", "n", "s", "t", "i", "t", "u", "c", "i", "o", "n">>, col_lower)
         THEN "sede"
    ELSE "ninguno"

\* the branch of the if/elif chain of lines 178-224 a column label takes
RolExactitud(col_lower) ==
    IF Contiene(K_fecha, col_lower) THEN "fecha"
    ELSE IF Contiene(K_codigo, col_lower) \/ Contiene(<<"i", "d", "_">>, col_lower) THEN "codigo"
    ELSE IF Contiene(K_telefono, col_lower) \/ Contiene(K_celular, col_lower) THEN "telefono"
    ELSE IF Contiene(<<"g", "e", "n", "e", "r", "o">>, col_lower) THEN "genero"
    ELSE IF Contiene(K_email, col_lower) \/ Contiene(K_correo, col_lower) THEN "email"
    ELSE IF \/ Contiene(<<"s", "e", "d", "e">>, col_lower)
            \/ Contiene(<<"i", "n", "s", "t", "i", "t", "u", "c", "i", "o", "n">>, col_lower)
         THEN "sede"
    ELSE "ninguno"

\* what one value takes off col_score under the column's role
DeduccionRol(rol, valor_str) ==
    CASE rol = "fecha" ->
            IF Lower(valor_str) = T_hoy THEN 20
            ELSE IF to_datetime(valor_str).r = "error" THEN 15 ELSE 0
      [] rol = "codigo" ->
            IF valor_str = T_vacio \/ valor_str = T_interrogacion THEN 25 ELSE 0
      [] rol = "telefono" ->
            IF Len(valor_str) > 12 \/ Len(valor_str) < 7 THEN 20
            ELSE IF ~(valor_str # <<>> /\ Rango(valor_str) \subseteq Cifras) THEN 15
            ELSE 0
      [] rol = "genero" ->
            IF Lower(valor_str) \notin {<<"m", "a", "s", "c", "u", "l", "i", "n", "o">>,
                                        <<"f", "e", "m", "e", "n", "i", "n", "o">>,
                                        <<"o", "t", "r", "o">>}
               /\ Lower(valor_str) # T_interrogacion THEN 30
            ELSE IF Lower(valor_str) = T_interrogacion THEN 40 ELSE 0
      [] rol = "email" -> IF ~EmailValido(valor_str) THEN 25 ELSE 0
      [] rol = "sede" ->
            IF Len(valor_str) < 3 \/ Contiene(T_interrogacion, valor_str)
               \/ Contiene(<<"@", "@">>, valor_str) THEN 30 ELSE 0
      [] OTHER -> 0

\* lines 232-241: the general text validation of an object column
DeduccionTexto(valor_str) ==
    (IF Contiene(T_interrogacion, valor_str) \/ Contiene(<<"@", "@">>, valor_str)
        \/ Contiene(<<"#", "#">>, valor_str) THEN 15 ELSE 0)
    + (IF Len(valor_str) > 200 THEN 10 ELSE 0)

\* the score appended to exactitud_scores for column c (lines 167-243)
exactitud_columna(d, c) ==
    LET valores_no_nulos == dropna(d, c)
        rol == RolExactitud(LowerNombre(d.columnas[c]))
        PorRol(v) == DeduccionRol(rol, Strip(StrValor(d, c, v)))
        PorTexto(v) == DeduccionTexto(StrValor(d, c, v))
        col_score == 100 - Suma(valores_no_nulos, PorRol)
                         - (IF EsObject(d, c) THEN Suma(valores_no_nulos, PorTexto) ELSE 0)
    IN  IF Len(valores_no_nulos) = 0 THEN 100 ELSE Max(0, col_score)

\* 2. EXACTITUD
exactitud_hoja(d) ==
    IF NCols(d) > 0 THEN Mean([c \in Cols(d) |-> RInt(exactitud_columna(d, c))])
    ELSE RInt(50)

\* lines 258-262: the first column whose label contains campo (0: none);
\* reading .lower() of a label that is not a str raises
RECURSIVE BuscarColumna(_, _, _)
BuscarColumna(d, campo, c) ==
    IF c > NCols(d) THEN 0
    ELSE IF ~d.columnas[c].texto THEN -1
    ELSE IF Contiene(Lower(campo), LowerNombre(d.columnas[c])) THEN c
    ELSE BuscarColumna(d, campo, c + 1)

campos_clave == <<K_documento, K_id_estudiante, K_email>>

\* porcentaje_unicos of the column found for campo (100 when it constrains nothing)
UnicidadCampo(d, campo) ==
    LET col_encontrada == BuscarColumna(d, campo, 1)
        valores_campo == dropna(d, col_encontrada)
    IN  IF col_encontrada > 0 /\ Len(valores_campo) > 0
        THEN RMul(Rat(Distintos(valores_campo), LenSerie(valores_campo)), RInt(100))
        ELSE RInt(100)

RECURSIVE MinCampos(_, _, _)
MinCampos(d, i, acc) ==
    IF i > Len(campos_clave) THEN acc
    ELSE MinCampos(d, i + 1, RMin(acc, UnicidadCampo(d, campos_clave[i])))

\* len(df.drop_duplicates())
filas_unicas(d) == Cardinality({d.bloques[b].celdas : b \in Bloques(d)})

\* The metric with lines 253-270 left out: the full-row ratio alone
unicidad_solo_filas(d) ==
    IF NFilas(d) > 0 THEN RMul(Rat(filas_unicas(d), NFilas(d)), RInt(100))
    ELSE RInt(100)

\* 3. UNICIDAD
unicidad_hoja(d) ==
    IF NFilas(d) > 0
    THEN LET unicidad_completa == RMul(Rat(filas_unicas(d), NFilas(d)), RInt(100))
             unicidad_campos_clave == MinCampos(d, 1, RInt(100))
         IN  RMin(unicidad_completa, unicidad_campos_clave)
    ELSE RInt(100)

\* lines 291-300: the format label of one value of a date/period column
FormatoFecha(valor_str) ==
    LET valor == Strip(valor_str)
    IN  IF Contiene(<<"/">>, valor) THEN "dd/mm/yyyy"
        ELSE IF Contiene(<<"-">>, valor) THEN "yyyy-mm-dd"
        ELSE IF Lower(valor) = T_hoy THEN "texto"
        ELSE "otro"

\* the score appended to consistencia_scores for a column with data
\* (lines 279-331)
consistencia_columna(d, c) ==
    LET valores_no_nulos == dropna(d, c)
        Str(v) == StrValor(d, c, v)
        valores_str == {Str(valores_no_nulos[i].v) : i \in DOMAIN valores_no_nulos}
        n == LenSerie(valores_no_nulos)
        col_lower == LowerNombre(d.columnas[c])
        \* str.isupper(), str.islower()
        EsMayus(v) == /\ Rango(Str(v)) \cap LetrasMayusculas # {}
                      /\ Rango(Str(v)) \cap LetrasMinusculas = {}
        EsMinus(v) == /\ Rango(Str(v)) \cap LetrasMinusculas # {}
                      /\ Rango(Str(v)) \cap LetrasMayusculas = {}
        ConEspacio(v) == Str(v) # Strip(Str(v))
        ConEspecial(v) == Rango(Str(v)) \cap {"@", "#", "$", "%"} # {}
        mayusculas == Cuenta(valores_no_nulos, EsMayus)
        minusculas == Cuenta(valores_no_nulos, EsMinus)
        con_espacios == Cuenta(valores_no_nulos, ConEspacio)
        con_caracteres_especiales == Cuenta(valores_no_nulos, ConEspecial)
        por_formato ==
            IF Contiene(K_fecha, col_lower) \/ Contiene(<<"p", "e", "r", "i", "o", "d", "o">>, col_lower)
            THEN (IF Cardinality({FormatoFecha(t) : t \in valores_str}) > 1 THEN 30 ELSE 0)
            \* col.lower().startswith('id')
            ELSE IF \/ Contiene(K_codigo, col_lower)
                    \/ (Len(col_lower) >= 2 /\ SubSeq(col_lower, 1, 2) = <<"i", "d">>)
                 THEN (IF Cardinality({Len(Strip(t)) : t \in valores_str}) > 2 THEN 25 ELSE 0)
                 ELSE 0
        \* min(mayusculas, minusculas) / len > 0.2;  con_espacios > len * 0.1
        por_general ==
            IF n > 1
            THEN (IF mayusculas > 0 /\ minusculas > 0
                     /\ 10 * Min(mayusculas, minusculas) > 2 * n THEN 25 ELSE 0)
                 + (IF 10 * con_espacios > n THEN 20 ELSE 0)
                 + (IF con_caracteres_especiales > 0 /\ con_caracteres_especiales < n
                    THEN 15 ELSE 0)
            ELSE 0
    IN  IF EsObject(d, c) THEN Max(0, 100 - por_formato - por_general) ELSE 100

\* the columns that have at least one non-null value, in order
RECURSIVE ColumnasConDatos(_, _)
ColumnasConDatos(d, c) ==
    IF c > NCols(d) THEN <<>>
    ELSE (IF Len(dropna(d, c)) = 0 THEN <<>> ELSE <<c>>) \o ColumnasConDatos(d, c + 1)

\* 4. CONSISTENCIA
consistencia_hoja(d) ==
    LET cs == ColumnasConDatos(d, 1)
    IN  IF cs # <<>>
        THEN Mean([i \in DOMAIN cs |-> RInt(consistencia_columna(d, cs[i]))])
        ELSE RInt(50)

\* lines 343-348: whether one value counts as a grave problem
EsProblemaGrave(d, c, v) ==
    LET valor_str == Strip(StrValor(d, c, v))
    IN  IF \E patron \in {T_bUD, <<"j", "0", "2", "5">>, <<"x", "0", "2", "5">>,
                            <<"n", "0", "2", "5">>} : Contiene(patron, valor_str)
        THEN TRUE
        ELSE IF valor_str = T_hoy /\ Contiene(K_fecha, LowerNombre(d.columnas[c]))
             THEN TRUE
             ELSE Contiene(<<"9", "9", "9", "9", "9", "9", "9", "9", "9", "9", "9", "9",
                             "9", "9", "9">>, valor_str)

problemas_graves(d) ==
    SumaSeq([c \in Cols(d) |->
        LET Grave(v) == EsProblemaGrave(d, c, v) IN Cuenta(dropna(d, c), Grave)])

\* min(0.5, problemas_graves / (len(df) * 0.1))
factor_penalizacion(d) ==
    RMin(Rat(1, 2), Rat(10 * problemas_graves(d), NFilas(d)))

\* The step applied to exactitud alone
PenalizarSoloExactitud(m, d) ==
    IF problemas_graves(d) > 0
    THEN [m EXCEPT !.exactitud = RMul(m.exactitud, RSub(RInt(1), factor_penalizacion(d)))]
    ELSE m

\* lines 351-354: every metric is multiplied by (1 - factor_penalizacion)
AplicarPenalizacion(m, d) ==
    IF problemas_graves(d) > 0
    THEN [x \in DOMAIN m |-> RMul(m[x], RSub(RInt(1), factor_penalizacion(d)))]
    ELSE m

\* lines 358-363, 120-125, 71-76 and 373-378: the default values
MetricasPorDefecto ==
    [completitud |-> RInt(30), exactitud |-> RInt(25),
     unicidad |-> RInt(40), consistencia |-> RInt(35)]

\* lines 133-138: the values the dict starts with
MetricasIniciales ==
    [completitud |-> RInt(50), exactitud |-> RInt(50),
     unicidad |-> RInt(50), consistencia |-> RInt(50)]

\* lines 365-367: max(0.0, min(100.0, m)) of every metric
AsegurarRango(m) ==
    [x \in DOMAIN m |-> RMax(RInt(0), RMin(RInt(100), m[x]))]

\* Whether the try block of lines 143-354 raises on d: a cell holds an
\* unhashable object (drop_duplicates, line 250), a label that is not a str
\* has data (col.lower(), line 175), or the search of a key field reaches
\* such a label (line 260)
LanzaMetricas(d) ==
    \/ \E b \in Bloques(d), c \in Cols(d) : Celda(d, b, c).k = "obj"
    \/ \E c \in Cols(d) : ~d.columnas[c].texto /\ Len(dropna(d, c)) > 0
    \/ \E i \in DOMAIN campos_clave : BuscarColumna(d, campos_clave[i], 1) = -1

MetricasCalculadas(d) ==
    AplicarPenalizacion(
        [completitud |-> completitud_hoja(d), exactitud |-> exactitud_hoja(d),
         unicidad |-> unicidad_hoja(d), consistencia |-> consistencia_hoja(d)], d)

\* The method with two slips: the penalty added where line 353 subtracts
\* it, and the loop of lines 365-367 left out
calcular_metricas_sin_acotar(d) ==
    IF NFilas(d) = 0 \/ NCols(d) = 0 THEN MetricasIniciales
    ELSE IF LanzaMetricas(d) THEN MetricasPorDefecto
    ELSE LET m == [completitud |-> completitud_hoja(d), exactitud |-> exactitud_hoja(d),
                   unicidad |-> unicidad_hoja(d), consistencia |-> consistencia_hoja(d)]
         IN  IF problemas_graves(d) > 0
             THEN [x \in DOMAIN m |-> RMul(m[x], RAdd(RInt(1), factor_penalizacion(d)))]
             ELSE m

calcular_metricas_calidad_hoja(d) ==
    IF NFilas(d) = 0 \/ NCols(d) = 0 THEN MetricasIniciales
    ELSE AsegurarRango(IF LanzaMetricas(d) THEN MetricasPorDefecto
                       ELSE MetricasCalculadas(d))

-----------------------------------------------------------------------------
(* _detectar_problemas_hoja.  A problem record keeps tipo, severidad,       *)
(* columna, valor and ejemplos; descripcion is a rendering of these.  Each  *)
(* rule gives the records it appends and whether it raises; a rule that     *)
(* raises has appended the records of the columns before the failing one.   *)

\* index (from 0) of the first row of block b
RECURSIVE PrimeraFila(_, _)
PrimeraFila(d, b) == IF b = 1 THEN 0 ELSE PrimeraFila(d, b - 1) + d.bloques[b - 1].n

\* the first (at most tope) per-row entries of column c: E(b, fila) is the
\* sequence of entries of one row of block b
EntradasColumna(d, c, tope, E(_, _)) ==
    Concat([b \in Bloques(d) |->
        Concat([k \in 1..Min(d.bloques[b].n, tope) |-> E(b, PrimeraFila(d, b) + k - 1)])])

\* 1. Valores nulos y vacios por columna (lines 403-433)
EsVacioTexto(valor_str) == valor_str = T_vacio \/ Len(valor_str) = 0
EsPlaceholderTexto(valor_str) ==
    valor_str \in {T_interrogacion, <<"N", "/", "A">>, T_na, T_null}

ConteoFaltantes(d, c) ==
    LET valores == dropna(d, c)
        Vacio(v) == EsVacioTexto(Strip(StrValor(d, c, v)))
        Placeholder(v) == ~Vacio(v) /\ EsPlaceholderTexto(Strip(StrValor(d, c, v)))
    IN  [nulos |-> NFilas(d) - LenSerie(valores),
         vacios |-> Cuenta(valores, Vacio),
         placeholders |-> Cuenta(valores, Placeholder)]

TotalFaltantes(d, c) ==
    ConteoFaltantes(d, c).nulos + ConteoFaltantes(d, c).vacios
        + ConteoFaltantes(d, c).placeholders

\* porcentaje_problemas = (total_problemas / len(df)) * 100 compared with
\* 10 and 30
Regla1Columna(d, c) ==
    LET total_problemas == TotalFaltantes(d, c)
    IN  IF NFilas(d) > 0 /\ total_problemas > 0 /\ 100 * total_problemas > 10 * NFilas(d)
        THEN <<[tipo |-> "datos_faltantes_o_invalidos",
                severidad |-> IF 100 * total_problemas > 30 * NFilas(d)
                              THEN "alta" ELSE "media",
                columna |-> d.columnas[c],
                valor |-> Rat(100 * total_problemas, NFilas(d)),
                detalles |-> ConteoFaltantes(d, c)]>>
        ELSE <<>>

Regla1(d) == [probs |-> Concat([c \in Cols(d) |-> Regla1Columna(d, c)]), lanza |-> FALSE]

\* 2. Errores tipograficos (lines 436-471)
patrones_error ==
    << << T_bUD, <<"I", "U", "D">> >>,
       << <<"j", "0", "2", "5", "-", "1">>, T_2025_1 >>,
       << <<"x", "0", "2", "5", "-", "1">>, T_2025_1 >>,
       << <<"n", "0", "2", "5", "-", "1">>, T_2025_1 >>,
       << <<"i", "0", "2", "5", "-", "1">>, T_2025_1 >>,
       << T_hoy, <<"f", "e", "c", "h", "a", " ", "e", "s", "p", "e", "c", "i_acento",
                   "f", "i", "c", "a">> >>,
       << <<"t", "I", "S", "N", "E", "R", "O", "S">>,
          <<"C", "I", "S", "N", "E", "R", "O", "S">> >>,
       << <<"micro">>, <<"A">> >>,
       << <<"cent">>, <<"o">> >>,
       << <<"coma_baja">>, <<"e">> >> >>

\* the entries one cell adds to errores_tipograficos
RECURSIVE ErroresCelda(_, _, _, _)
ErroresCelda(nom, valor_str, fila, i) ==
    IF i > Len(patrones_error) THEN <<>>
    ELSE (IF Contiene(patrones_error[i][1], valor_str)
          THEN <<[fila |-> fila, columna |-> nom, valor_actual |-> valor_str,
                  patron_error |-> patrones_error[i][1],
                  sugerencia |-> Reemplazar(valor_str, patrones_error[i][1],
                                            patrones_error[i][2])]>>
          ELSE <<>>)
         \o ErroresCelda(nom, valor_str, fila, i + 1)

NumErroresTipograficos(d) ==
    SumaSeq([c \in Cols(d) |->
        LET N(v) == Len(ErroresCelda(d.columnas[c], StrValor(d, c, v), 0, 1))
        IN  Suma(dropna(d, c), N)])

Regla2(d) ==
    LET PorFila(c, b, fila) ==
            IF isna(Celda(d, b, c)) THEN <<>>
            ELSE ErroresCelda(d.columnas[c], StrValor(d, c, Celda(d, b, c)), fila, 1)
        errores_tipograficos ==
            Concat([c \in Cols(d) |->
                LET E(b, fila) == PorFila(c, b, fila) IN EntradasColumna(d, c, 5, E)])
    IN  [probs |-> IF NumErroresTipograficos(d) > 0
                   THEN <<[tipo |-> "errores_tipograficos", severidad |-> "alta",
                           valor |-> NumErroresTipograficos(d),
                           ejemplos |-> Primeros(errores_tipograficos, 5)]>>
                   ELSE <<>>,
         lanza |-> FALSE]

\* 3. Valores de longitud anormal (lines 474-495)
LongitudAnormal(valor_str) == Len(valor_str) > 12 \/ Len(valor_str) < 7

Regla3Columna(d, c) ==
    LET col_lower == LowerNombre(d.columnas[c])
        Anormal(v) == LongitudAnormal(Strip(StrValor(d, c, v)))
        E(b, fila) ==
            IF ~isna(Celda(d, b, c)) /\ Anormal(Celda(d, b, c))
            THEN <<[fila |-> fila, valor |-> Strip(StrValor(d, c, Celda(d, b, c))),
                    longitud |-> Len(Strip(StrValor(d, c, Celda(d, b, c))))]>>
            ELSE <<>>
    IN  IF (Contiene(K_telefono, col_lower) \/ Contiene(K_celular, col_lower))
           /\ Cuenta(dropna(d, c), Anormal) > 0
        THEN <<[tipo |-> "longitud_telefono_anormal", severidad |-> "media",
                columna |-> d.columnas[c],
                valor |-> Cuenta(dropna(d, c), Anormal),
                ejemplos |-> Primeros(EntradasColumna(d, c, 3, E), 3)]>>
        ELSE <<>>

\* the first column whose label is not a str (0: none)
RECURSIVE PrimeraNoTexto(_, _)
PrimeraNoTexto(d, c) ==
    IF c > NCols(d) THEN 0
    ELSE IF ~d.columnas[c].texto THEN c ELSE PrimeraNoTexto(d, c + 1)

Regla3(d) ==
    LET malo == PrimeraNoTexto(d, 1)
        hasta == IF malo = 0 THEN NCols(d) ELSE malo - 1
    IN  [probs |-> Concat([c \in 1..hasta |-> Regla3Columna(d, c)]),
         lanza |-> malo # 0]

\* The column searches of rules 4-7: the first column whose label satisfies
\* Coincide (0: none; -1: the search read a label that is not a str first)
RECURSIVE PrimeraColumna(_, _, _)
PrimeraColumna(d, Coincide(_), c) ==
    IF c > NCols(d) THEN 0
    ELSE IF ~d.columnas[c].texto THEN -1
    ELSE IF Coincide(LowerNombre(d.columnas[c])) THEN c
    ELSE PrimeraColumna(d, Coincide, c + 1)

\* A rule that loops over a list of field names: the records of the fields
\* in order, up to and without the first field whose step raises
RECURSIVE PorCampos(_, _, _)
PorCampos(campos, Paso(_), i) ==
    IF i > Len(campos) THEN [probs |-> <<>>, lanza |-> FALSE]
    ELSE LET p == Paso(campos[i])
         IN  IF p.lanza THEN p
             ELSE LET resto == PorCampos(campos, Paso, i + 1)
                  IN  [probs |-> p.probs \o resto.probs, lanza |-> resto.lanza]

\* 4. Inconsistencias en codigos obligatorios (lines 498-519)
campos_obligatorios ==
    << <<"c", "o", "d", "i", "g", "o", " ", "p", "r", "o", "g", "r", "a", "m", "a">>,
       <<"c", "o", "d", "i", "g", "o", "_", "p", "r", "o", "g", "r", "a", "m", "a">>,
       K_id_estudiante >>

SinGuionBajo(s) == Reemplazar(s, <<"_">>, <<" ">>)

Regla4Campo(d, campo_obligatorio) ==
    LET Coincide(col_lower) ==
            Contiene(SinGuionBajo(Lower(campo_obligatorio)), SinGuionBajo(col_lower))
        columna_encontrada == PrimeraColumna(d, Coincide, 1)
        Vacio(v) == Strip(StrValor(d, columna_encontrada, v)) = T_vacio
        valores_faltantes ==
            (NFilas(d) - LenSerie(dropna(d, columna_encontrada)))
            + Cuenta(dropna(d, columna_encontrada), Vacio)
    IN  IF columna_encontrada = -1 THEN [probs |-> <<>>, lanza |-> TRUE]
        ELSE IF columna_encontrada > 0 /\ valores_faltantes > 0
        THEN [probs |-> <<[tipo |-> "campo_obligatorio_faltante", severidad |-> "alta",
                           columna |-> d.columnas[columna_encontrada],
                           valor |-> valores_faltantes]>>,
              lanza |-> FALSE]
        ELSE [probs |-> <<>>, lanza |-> FALSE]

Regla4(d) ==
    LET Paso(campo) == Regla4Campo(d, campo) IN PorCampos(campos_obligatorios, Paso, 1)

\* 5. Duplicados en campos unicos (lines 522-541); Series.duplicated()
\* raises TypeError on an unhashable value
campos_unicos == <<K_documento, K_id_estudiante, K_email>>

Regla5Campo(d, campo_unico) ==
    LET Coincide(col_lower) == Contiene(Lower(campo_unico), col_lower)
        columna_encontrada == PrimeraColumna(d, Coincide, 1)
        valores_validos == dropna(d, columna_encontrada)
        duplicados == LenSerie(valores_validos) - Distintos(valores_validos)
    IN  IF columna_encontrada = -1 THEN [probs |-> <<>>, lanza |-> TRUE]
        ELSE IF columna_encontrada > 0 /\ Len(valores_validos) > 0
        THEN IF \E i \in DOMAIN valores_validos : valores_validos[i].v.k = "obj"
             THEN [probs |-> <<>>, lanza |-> TRUE]
             ELSE IF duplicados > 0
             THEN [probs |-> <<[tipo |-> "duplicados_en_campo_unico",
                                severidad |-> "alta",
                                columna |-> d.columnas[columna_encontrada],
                                valor |-> duplicados]>>,
                   lanza |-> FALSE]
             ELSE [probs |-> <<>>, lanza |-> FALSE]
        ELSE [probs |-> <<>>, lanza |-> FALSE]

Regla5(d) ==
    LET Paso(campo) == Regla5Campo(d, campo) IN PorCampos(campos_unicos, Paso, 1)

\* 6. Edades improbables (lines 544-577).  ahora is pd.Timestamp.now() as a
\* day number; edad = dias / 365.25, so edad < 15 iff 4 * dias < 15 * 1461
\* and edad > 80 iff 4 * dias > 80 * 1461; round(edad, 1) in tenths of a year
EdadImprobable(dias) == 4 * dias < 15 * 1461 \/ 4 * dias > 80 * 1461
\* edad_calculada without round(edad, 1): the age as its count of days
EdadSinRedondear(dias) == dias
EdadEnDecimas(dias) == (80 * dias + 1461) \div 2922

Regla6(d, ahora) ==
    LET Coincide(col_lower) ==
            /\ Contiene(K_fecha, col_lower)
            /\ Contiene(<<"n", "a", "c", "i", "m", "i", "e", "n", "t", "o">>, col_lower)
        col_fecha_nacimiento == PrimeraColumna(d, Coincide, 1)
        c == col_fecha_nacimiento
        Nac(v) == to_datetime(StrValor(d, c, v))
        Improbable(v) == Nac(v).r = "ok" /\ EdadImprobable(ahora - Nac(v).dia)
        E(b, fila) ==
            IF ~isna(Celda(d, b, c)) /\ Improbable(Celda(d, b, c))
            THEN <<[fila |-> fila,
                    fecha_nacimiento |-> StrValor(d, c, Celda(d, b, c)),
                    edad_calculada |-> EdadEnDecimas(ahora - Nac(Celda(d, b, c)).dia)]>>
            ELSE <<>>
    IN  IF c = -1 THEN [probs |-> <<>>, lanza |-> TRUE]
        ELSE IF c > 0 /\ Cuenta(dropna(d, c), Improbable) > 0
        THEN [probs |-> <<[tipo |-> "edades_improbables", severidad |-> "media",
                           columna |-> d.columnas[c],
                           valor |-> Cuenta(dropna(d, c), Improbable),
                           ejemplos |-> Primeros(EntradasColumna(d, c, 3, E), 3)]>>,
              lanza |-> FALSE]
        ELSE [probs |-> <<>>, lanza |-> FALSE]

\* 7. Emails malformados (lines 580-607)
Regla7(d) ==
    LET Coincide(col_lower) == Contiene(K_email, col_lower) \/ Contiene(K_correo, col_lower)
        col_email == PrimeraColumna(d, Coincide, 1)
        c == col_email
        Invalido(v) == ~EmailValido(Strip(StrValor(d, c, v)))
        E(b, fila) ==
            IF ~isna(Celda(d, b, c)) /\ Invalido(Celda(d, b, c))
            THEN <<[fila |-> fila, email |-> Strip(StrValor(d, c, Celda(d, b, c)))]>>
            ELSE <<>>
    IN  IF c = -1 THEN [probs |-> <<>>, lanza |-> TRUE]
        ELSE IF c > 0 /\ Cuenta(dropna(d, c), Invalido) > 0
        THEN [probs |-> <<[tipo |-> "emails_malformados", severidad |-> "media",
                           columna |-> d.columnas[c],
                           valor |-> Cuenta(dropna(d, c), Invalido),
                           ejemplos |-> Primeros(EntradasColumna(d, c, 5, E), 5)]>>,
              lanza |-> FALSE]
        ELSE [probs |-> <<>>, lanza |-> FALSE]

\* 8. Filas vacias y casi vacias (lines 610-633)
NoNulosFila(d, b) == Cardinality({c \in Cols(d) : ~isna(Celda(d, b, c))})

Regla8(d) ==
    LET filas_vacias ==
            SumaSeq([b \in Bloques(d) |->
                IF NoNulosFila(d, b) = 0 THEN d.bloques[b].n ELSE 0])
        filas_casi_vacias ==
            SumaSeq([b \in Bloques(d) |->
                IF NoNulosFila(d, b) <= 2 THEN d.bloques[b].n ELSE 0])
    IN  [probs |->
            (IF NFilas(d) > 0 /\ filas_vacias > 0
             THEN <<[tipo |-> "filas_vacias", severidad |-> "media",
                     valor |-> filas_vacias]>>
             ELSE <<>>)
            \o (IF NFilas(d) > 0 /\ filas_casi_vacias > 0
                THEN <<[tipo |-> "filas_casi_vacias", severidad |-> "media",
                        valor |-> filas_casi_vacias]>>
                ELSE <<>>),
         lanza |-> FALSE]

\* The record of the except clause with a severity outside alta/media/baja
ErrorAnalisisCritico == [tipo |-> "error_analisis", severidad |-> "critica"]

\* lines 635-640: the record the except clause appends
ErrorAnalisis == [tipo |-> "error_analisis", severidad |-> "alta"]

\* The rules run in order inside one try block; the first one that raises
\* ends the block, and the except clause appends ErrorAnalisis
RECURSIVE EjecutarReglas(_, _)
EjecutarReglas(reglas, i) ==
    IF i > Len(reglas) THEN <<>>
    ELSE IF reglas[i].lanza THEN reglas[i].probs \o <<ErrorAnalisis>>
    ELSE reglas[i].probs \o EjecutarReglas(reglas, i + 1)

ReglasHoja(d, ahora) ==
    <<Regla1(d), Regla2(d), Regla3(d), Regla4(d), Regla5(d), Regla6(d, ahora),
      Regla7(d), Regla8(d)>>

detectar_problemas_hoja(d, ahora) == EjecutarReglas(ReglasHoja(d, ahora), 1)

-----------------------------------------------------------------------------
(* _analizar_hoja_individual and the aggregation.  A dict key that may be   *)
(* absent ("error") is the boolean field con_error.                          *)

NulosTotales(d) ==
    SumaSeq([c \in Cols(d) |-> NFilas(d) - LenSerie(dropna(d, c))])

\* df.duplicated() raises TypeError when a cell holds an unhashable object
LanzaDuplicated(d) == \E b \in Bloques(d), c \in Cols(d) : Celda(d, b, c).k = "obj"

analizar_hoja_individual(d, nombre_hoja, ahora) ==
    LET analisis ==
            [nombre |-> nombre_hoja,
             dimensiones |-> [filas |-> NFilas(d), columnas |-> NCols(d)],
             valores_nulos |-> NulosTotales(d),
             duplicados |-> 0, problemas |-> <<>>,
             metricas_calidad |-> MetricasPorDefecto, con_error |-> FALSE]
    IN  IF LanzaDuplicated(d)
        THEN [analisis EXCEPT !.con_error = TRUE]
        ELSE [analisis EXCEPT
                !.duplicados = NFilas(d) - filas_unicas(d),
                !.metricas_calidad = calcular_metricas_calidad_hoja(d),
                !.problemas = detectar_problemas_hoja(d, ahora)]

\* the sheet reports without "error", in order
RECURSIVE SinError(_)
SinError(hs) ==
    IF hs = <<>> THEN <<>>
    ELSE (IF Head(hs).con_error THEN <<>> ELSE <<Head(hs)>>) \o SinError(Tail(hs))

ConSeveridad(probs, sev) ==
    Cardinality({i \in DOMAIN probs : probs[i].severidad = sev})

generar_resumen_general(analisis_hojas) ==
    LET buenas == SinError(analisis_hojas)
        Total(F(_)) == SumaSeq([i \in DOMAIN buenas |-> F(buenas[i])])
        Filas(a) == a.dimensiones.filas
        Columnas(a) == a.dimensiones.columnas
        Problemas(a) == Len(a.problemas)
        Altas(a) == ConSeveridad(a.problemas, "alta")
        Medias(a) == ConSeveridad(a.problemas, "media")
        Bajas(a) == ConSeveridad(a.problemas, "baja")
    IN  [total_hojas_analizadas |-> Len(analisis_hojas),
         total_filas |-> Total(Filas),
         total_columnas |-> Total(Columnas),
         total_problemas |-> Total(Problemas),
         problemas_por_severidad |->
            [alta |-> Total(Altas), media |-> Total(Medias), baja |-> Total(Bajas)],
         calidad_promedio |->
            IF Len(analisis_hojas) > 0
            THEN Max(0, 100 - (Total(Altas) * 15 + Total(Medias) * 8))
            ELSE 30]

\* _calcular_metricas_calidad_detalladas if the dict of lines 373-378 held
\* the placeholder values 50.0 of lines 134-137
calcular_metricas_detalladas_sin_defecto(analisis_hojas) ==
    LET metricas_por_hoja ==
            [i \in DOMAIN SinError(analisis_hojas) |->
                SinError(analisis_hojas)[i].metricas_calidad]
    IN  IF metricas_por_hoja # <<>>
        THEN [criterio \in DOMAIN MetricasPorDefecto |->
                Mean([i \in DOMAIN metricas_por_hoja |-> metricas_por_hoja[i][criterio]])]
        ELSE MetricasIniciales

\* _calcular_metricas_calidad_detalladas if the loop of lines 383-385 kept
\* the metrics of one sheet, the last, where it appends them to the list
calcular_metricas_detalladas_ultima(analisis_hojas) ==
    LET metricas_por_hoja ==
            [i \in DOMAIN SinError(analisis_hojas) |->
                SinError(analisis_hojas)[i].metricas_calidad]
    IN  IF metricas_por_hoja # <<>>
        THEN metricas_por_hoja[Len(metricas_por_hoja)]
        ELSE MetricasPorDefecto

calcular_metricas_calidad_detalladas(analisis_hojas) ==
    LET metricas_por_hoja ==
            [i \in DOMAIN SinError(analisis_hojas) |->
                SinError(analisis_hojas)[i].metricas_calidad]
    IN  IF metricas_por_hoja # <<>>
        THEN [criterio \in DOMAIN MetricasPorDefecto |->
                Mean([i \in DOMAIN metricas_por_hoja |-> metricas_por_hoja[i][criterio]])]
        ELSE MetricasPorDefecto

\* _calcular_puntuacion_calidad without the min(30, ...) of line 736
calcular_puntuacion_sin_tope(resultado) ==
    LET metricas == resultado.metricas_calidad_detalladas
        puntuacion ==
            RAdd(RAdd(RMul(metricas.completitud, Rat(3, 10)),
                      RMul(metricas.exactitud, Rat(35, 100))),
                 RAdd(RMul(metricas.unicidad, Rat(15, 100)),
                      RMul(metricas.consistencia, Rat(2, 10))))
        problemas_altos == resultado.resumen_general.problemas_por_severidad.alta
        penalizada ==
            IF problemas_altos > 0
            THEN RMul(puntuacion, RSub(RInt(1), Rat(problemas_altos * 5, 100)))
            ELSE puntuacion
    IN  RMax(RInt(0), RMin(RInt(100), penalizada))

\* _calcular_puntuacion_calidad with (1 + ...) where line 737 has (1 - ...)
calcular_puntuacion_creciente(resultado) ==
    LET metricas == resultado.metricas_calidad_detalladas
        puntuacion ==
            RAdd(RAdd(RMul(metricas.completitud, Rat(3, 10)),
                      RMul(metricas.exactitud, Rat(35, 100))),
                 RAdd(RMul(metricas.unicidad, Rat(15, 100)),
                      RMul(metricas.consistencia, Rat(2, 10))))
        problemas_altos == resultado.resumen_general.problemas_por_severidad.alta
        penalizacion_critica == Min(30, problemas_altos * 5)
        penalizada ==
            IF problemas_altos > 0
            THEN RMul(puntuacion, RAdd(RInt(1), Rat(penalizacion_critica, 100)))
            ELSE puntuacion
    IN  RMax(RInt(0), RMin(RInt(100), penalizada))

\* _calcular_puntuacion_calidad (lines 710-744) of a report that has
\* metricas_calidad_detalladas
calcular_puntuacion_calidad(resultado) ==
    LET metricas == resultado.metricas_calidad_detalladas
        puntuacion ==
            RAdd(RAdd(RMul(metricas.completitud, Rat(3, 10)),
                      RMul(metricas.exactitud, Rat(35, 100))),
                 RAdd(RMul(metricas.unicidad, Rat(15, 100)),
                      RMul(metricas.consistencia, Rat(2, 10))))
        problemas_altos == resultado.resumen_general.problemas_por_severidad.alta
        penalizacion_critica == Min(30, problemas_altos * 5)
        penalizada ==
            IF problemas_altos > 0
            THEN RMul(puntuacion, RSub(RInt(1), Rat(penalizacion_critica, 100)))
            ELSE puntuacion
    IN  RMax(RInt(0), RMin(RInt(100), penalizada))

\* The loop of lines 48-54 if the failure of a sheet ended it
RECURSIVE AnalisisPorHojaInterrumpido(_, _, _)
AnalisisPorHojaInterrumpido(info, relojes, i) ==
    IF i > Len(info.hojas) THEN <<>>
    ELSE IF info.hojas[i].nombre \in DOMAIN info.dataframes /\ info.hojas[i].tiene_datos
    THEN LET a == analizar_hoja_individual(info.dataframes[info.hojas[i].nombre],
                                           info.hojas[i].nombre, relojes[i])
         IN  IF a.con_error THEN <<a>>
             ELSE <<a>> \o AnalisisPorHojaInterrumpido(info, relojes, i + 1)
    ELSE AnalisisPorHojaInterrumpido(info, relojes, i + 1)

\* analizar_archivo_completo (lines 21-78); relojes[i] is what
\* pd.Timestamp.now() returns while sheet i is analysed.  The figures of
\* "graficos" are left out: _generar_graficos_analisis catches what it raises.
RECURSIVE AnalisisPorHoja(_, _, _)
AnalisisPorHoja(info, relojes, i) ==
    IF i > Len(info.hojas) THEN <<>>
    ELSE (IF info.hojas[i].nombre \in DOMAIN info.dataframes /\ info.hojas[i].tiene_datos
          THEN <<analizar_hoja_individual(info.dataframes[info.hojas[i].nombre],
                                          info.hojas[i].nombre, relojes[i])>>
          ELSE <<>>)
         \o AnalisisPorHoja(info, relojes, i + 1)

\* the first entry of info["hojas"] without the key 'nombre', on which
\* line 49 raises KeyError; 0 when every entry has it
PrimeraSinNombre(info) ==
    LET S == {i \in DOMAIN info.hojas : "nombre" \notin DOMAIN info.hojas[i]}
    IN  IF S = {} THEN 0 ELSE CHOOSE i \in S : \A j \in S : i <= j

analizar_archivo_completo(info, relojes) ==
    IF ~info.exito THEN [k |-> "invalido", con_error |-> TRUE]
    ELSE IF PrimeraSinNombre(info) > 0
    THEN \* lines 34-41 and 68-76: an exception reached the handler while
         \* the sheets were walked; the analyses made so far, the empty
         \* summary and the score 0 the dict started with, "error" and the
         \* default metrics
         [k |-> "interrumpido", con_error |-> TRUE,
          analisis_por_hoja |->
              AnalisisPorHoja([info EXCEPT !.hojas =
                                   SubSeq(info.hojas, 1, PrimeraSinNombre(info) - 1)],
                              relojes, 1),
          resumen_general |-> <<>>,
          metricas_calidad_detalladas |-> MetricasPorDefecto,
          puntuacion_calidad |-> RInt(0)]
    ELSE LET hojas == AnalisisPorHoja(info, relojes, 1)
             parcial == [k |-> "informe", con_error |-> FALSE,
                         analisis_por_hoja |-> hojas,
                         resumen_general |-> generar_resumen_general(hojas),
                         metricas_calidad_detalladas |->
                             calcular_metricas_calidad_detalladas(hojas)]
         IN  [k |-> "informe", con_error |-> FALSE,
              analisis_por_hoja |-> hojas,
              resumen_general |-> parcial.resumen_general,
              metricas_calidad_detalladas |-> parcial.metricas_calidad_detalladas,
              puntuacion_calidad |-> calcular_puntuacion_calidad(parcial)]

-----------------------------------------------------------------------------
(* The inputs of the model.                                                 *)

MaxColumnas == 2          \* columns of a sheet given to the per-sheet functions
MaxBloques == 2           \* blocks of such a sheet
MaxBloquesClave == 3      \* blocks of a sheet of one key column
MaxRep == 20              \* copies of the row of a block
MaxHojas == 2             \* sheets of a file
MaxColumnasArchivo == 1   \* columns of a sheet of a file
MaxBloquesArchivo == 2    \* rows of a sheet of a file
MaxCorridas == 2          \* runs on one input
MaxAltas == 8             \* 'alta' counts the score function is tried on

N_Email == Nombre(<<"E", "m", "a", "i", "l">>)
N_nota == Nombre(<<"n", "o", "t", "a">>)
N_Fecha_Nacimiento ==
    Nombre(<<"F", "e", "c", "h", "a", "_", "N", "a", "c", "i", "m", "i", "e", "n", "t", "o">>)
N_2024 == NombreEntero(2024)

V_correo == Txt(<<"a", "@", "b", ".", "c", "o", "m">>)
V_bUD == Txt(T_bUD)
V_7 == Num(7)
V_2010 == Ts(0, T_2010_05_01)
V_1930 == Ts(-29340, T_1930_01_01)

\* the values a column of each label takes in a sheet given to the
\* per-sheet functions, and in a sheet of a file
ValoresHoja(nom) ==
    CASE nom = N_Email -> {Nulo, V_correo, V_bUD}
      [] nom = N_nota -> {Nulo, V_7, V_bUD}
      [] nom = N_2024 -> {Nulo, V_7}
ValoresArchivo(nom) ==
    CASE nom = N_Email -> {V_bUD, Obj}
      [] nom = N_Fecha_Nacimiento -> {Nulo, V_2010, V_1930}
      [] nom = N_2024 -> {Nulo, V_7}

SecuenciasSinRepetir(S, n) ==
    {s \in [1..n -> S] : \A i, j \in 1..n : i # j => s[i] # s[j]}

\* Sheets of one column that hold the texts the two cell classifications
\* name ('none', 'NA', 'N/A', '??', ' '), whose label 'fecha_telefono'
\* names two roles, or whose label 'codigo_programa' is a mandatory field
N_fecha_telefono ==
    Nombre(<<"f", "e", "c", "h", "a", "_", "t", "e", "l", "e", "f", "o", "n", "o">>)
N_codigo_programa ==
    Nombre(<<"c", "o", "d", "i", "g", "o", "_", "p", "r", "o", "g", "r", "a", "m", "a">>)
ValoresEscenario(nom) ==
    CASE nom = N_nota -> {Txt(<<"n", "o", "n", "e">>), Txt(<<"N", "A">>),
                          Txt(<<"N", "/", "A">>), Txt(T_interrogacion), Txt(<<" ">>), V_7}
      [] nom = N_fecha_telefono -> {Nulo, Txt(T_hoy), V_bUD}
      [] nom = N_codigo_programa -> {Nulo, V_7}

TodosLosValores ==
    {Nulo, V_correo, V_bUD, V_7, V_2010, V_1930, Obj}
    \cup ValoresEscenario(N_nota) \cup ValoresEscenario(N_fecha_telefono)

FilasDe(columnas, Valores(_)) ==
    {f \in [DOMAIN columnas -> TodosLosValores] :
        \A c \in DOMAIN columnas : f[c] \in Valores(columnas[c])}

\* the DataFrames of at most maxCols columns and maxBloques blocks
DataFrames(nombres, Valores(_), maxCols, maxBloques, reps) ==
    UNION {UNION {{[columnas |-> cs, bloques |-> bs] :
                      bs \in [1..nb -> [celdas : FilasDe(cs, Valores), n : reps]]} :
                  nb \in 0..maxBloques} :
           cs \in UNION {SecuenciasSinRepetir(nombres, nc) : nc \in 0..maxCols}}

\* the sheets above, a sheet of 10 rows and 2 columns with 6 nulls in
\* one column, a sheet of one column of 5 identical numbers, a sheet of
\* a column of four '??' beside a column without data, a sheet of one
\* numeric column in which 2 values of 10 lie far from the rest, sheets
\* of 10 rows of which exactly 1 and exactly 3 are null, and a sheet of the
\* three key columns, each with a repeated value, and an empty column whose
\* header is the number 2024
HojasEscenario ==
    DataFrames({N_nota, N_fecha_telefono, N_codigo_programa}, ValoresEscenario,
               1, MaxBloques, {1})
    \cup {[columnas |-> <<N_nota, N_Email>>,
           bloques |-> <<[celdas |-> <<Nulo, V_correo>>, n |-> 6],
                         [celdas |-> <<V_7, V_correo>>, n |-> 4]>>],
          [columnas |-> <<N_nota>>, bloques |-> <<[celdas |-> <<V_7>>, n |-> 5]>>],
          [columnas |-> <<N_nota, N_Email>>,
           bloques |-> <<[celdas |-> <<Txt(T_interrogacion), Nulo>>, n |-> 4]>>],
          [columnas |-> <<N_nota>>,
           bloques |-> <<[celdas |-> <<V_7>>, n |-> 8],
                         [celdas |-> <<Num(1000)>>, n |-> 2]>>],
          [columnas |-> <<N_nota>>,
           bloques |-> <<[celdas |-> <<Nulo>>, n |-> 1], [celdas |-> <<V_7>>, n |-> 9]>>],
          [columnas |-> <<N_nota>>,
           bloques |-> <<[celdas |-> <<Nulo>>, n |-> 3], [celdas |-> <<V_7>>, n |-> 7]>>],
          [columnas |-> <<Nombre(K_documento), Nombre(K_id_estudiante), Nombre(K_email),
                          N_2024>>,
           bloques |-> <<[celdas |-> <<V_7, V_7, V_correo, Nulo>>, n |-> 2]>>]}

Hojas ==
    DataFrames({N_Email, N_nota, N_2024}, ValoresHoja, MaxColumnas, MaxBloques, {1, MaxRep})
    \cup DataFrames({N_Email}, ValoresHoja, 1, MaxBloquesClave, {1, MaxRep})
    \cup HojasEscenario

HojasArchivo == DataFrames({N_Email, N_Fecha_Nacimiento, N_2024}, ValoresArchivo,
                           MaxColumnasArchivo, MaxBloquesArchivo, {1})

\* 2025-04-30 and 2025-05-01 as day numbers from 2010-05-01: a person born
\* on 2010-05-01 is under 15 on the first and not on the second
Relojes == {5478, 5479}

LecturasDeReloj(n) ==
    {r \in [1..n -> Relojes] : \A i, j \in 1..n : i <= j => r[i] <= r[j]}

\* cargar_excel_completo (src/app/utilidades.py, lines 62-112): a sheet
\* that was read is in "dataframes" and has tiene_datos = not df.empty; one
\* that could not be read has neither
ILEGIBLE == [k |-> "ilegible"]
df_empty(d) == NFilas(d) = 0 \/ NCols(d) = 0

InfoArchivo(tablas) ==
    [exito |-> TRUE,
     hojas |-> [i \in DOMAIN tablas |->
                    [nombre |-> i,
                     tiene_datos |-> IF tablas[i] = ILEGIBLE THEN FALSE
                                     ELSE ~df_empty(tablas[i])]],
     dataframes |-> [i \in {j \in DOMAIN tablas : tablas[j] # ILEGIBLE} |-> tablas[i]]]

ArchivoFallido == [exito |-> FALSE, hojas |-> <<>>, dataframes |-> <<>>]

\* a dict that did not come from the loader: exito is true and the one
\* entry of "hojas" has no 'nombre'
ArchivoSinNombre ==
    [exito |-> TRUE, hojas |-> <<[tiene_datos |-> TRUE]>>, dataframes |-> <<>>]

Archivos ==
    {ArchivoFallido, ArchivoSinNombre}
    \cup {InfoArchivo(ts) :
            ts \in UNION {[1..n -> HojasArchivo \cup {ILEGIBLE}] : n \in 1..MaxHojas}}

-----------------------------------------------------------------------------
(* Spec: runs of analizar_archivo_completo on one loaded file.              *)

Init ==
    /\ info_archivo \in Archivos
    /\ resultado_analisis = NADA
    /\ lecturas = <<>>
    /\ anterior = NADA
    /\ corridas = 0
    /\ df = NADA
    /\ metricas_hoja = NADA
    /\ problemas_hoja = NADA
    /\ previa = NADA
    /\ edicion = "ninguna"
    /\ session_state = NADA
    /\ ultimo = "ninguno"

\* A call of analizar_archivo_completo that drops from every table the rows
\* that hold a null, as df.dropna(inplace=True) would
AnalizarArchivoEnSitio ==
    /\ corridas < MaxCorridas
    /\ \E r \in LecturasDeReloj(Len(info_archivo.hojas)) :
        /\ \A i \in DOMAIN lecturas : \A j \in DOMAIN r : lecturas[i] <= r[j]
        /\ lecturas' = r
        /\ resultado_analisis' = analizar_archivo_completo(info_archivo, r)
    /\ info_archivo' =
           [info_archivo EXCEPT !.dataframes =
               [i \in DOMAIN info_archivo.dataframes |->
                   [info_archivo.dataframes[i] EXCEPT !.bloques =
                       SelectSeq(info_archivo.dataframes[i].bloques,
                                 LAMBDA b : \A c \in DOMAIN b.celdas : ~isna(b.celdas[c]))]]]
    /\ anterior' = [resultado |-> resultado_analisis, lecturas |-> lecturas]
    /\ corridas' = corridas + 1
    /\ UNCHANGED <<session_state, ultimo, df, metricas_hoja, problemas_hoja, previa, edicion>>

\* One call of analizar_archivo_completo(info_archivo); the clock does not
\* go back between two readings
AnalizarArchivo ==
    /\ corridas < MaxCorridas
    /\ \E r \in LecturasDeReloj(Len(info_archivo.hojas)) :
        /\ \A i \in DOMAIN lecturas : \A j \in DOMAIN r : lecturas[i] <= r[j]
        /\ lecturas' = r
        /\ resultado_analisis' = analizar_archivo_completo(info_archivo, r)
    /\ anterior' = [resultado |-> resultado_analisis, lecturas |-> lecturas]
    /\ corridas' = corridas + 1
    /\ UNCHANGED <<session_state, ultimo, info_archivo, df, metricas_hoja, problemas_hoja, previa, edicion>>

Next == AnalizarArchivo

Spec == Init /\ [][Next]_vars

-----------------------------------------------------------------------------
(* SpecHoja: the per-sheet functions applied to one DataFrame, and to the   *)
(* DataFrame after one edit.                                                 *)

InitHoja ==
    /\ df \in Hojas
    /\ metricas_hoja = NADA
    /\ problemas_hoja = NADA
    /\ previa = NADA
    /\ edicion = "ninguna"
    /\ info_archivo = NADA
    /\ resultado_analisis = NADA
    /\ lecturas = <<>>
    /\ anterior = NADA
    /\ corridas = 0
    /\ session_state = NADA
    /\ ultimo = "ninguno"

CalcularMetricasHoja ==
    /\ metricas_hoja = NADA
    /\ metricas_hoja' = calcular_metricas_calidad_hoja(df)
    /\ UNCHANGED <<session_state, ultimo, df, problemas_hoja, previa, edicion, info_archivo,
                   resultado_analisis, lecturas, anterior, corridas>>

DetectarProblemasHoja ==
    /\ problemas_hoja = NADA
    /\ edicion = "ninguna"
    /\ \E ahora \in Relojes :
        problemas_hoja' = [k |-> "problemas",
                           lista |-> detectar_problemas_hoja(df, ahora)]
    /\ UNCHANGED <<session_state, ultimo, df, metricas_hoja, previa, edicion, info_archivo,
                   resultado_analisis, lecturas, anterior, corridas>>

\* d with the cell of column c of the first row of block b replaced by null
AnularCeldaDe(d, b, c) ==
    LET fila == d.bloques[b]
        anulada == [celdas |-> [fila.celdas EXCEPT ![c] = Nulo], n |-> 1]
        resto == IF fila.n > 1 THEN <<[fila EXCEPT !.n = fila.n - 1]>> ELSE <<>>
    IN  [d EXCEPT !.bloques = SubSeq(d.bloques, 1, b - 1) \o <<anulada>> \o resto
                              \o SubSeq(d.bloques, b + 1, Len(d.bloques))]

\* d with one more row at the end, a copy of a row of block b
DuplicarFilaDe(d, b) ==
    [d EXCEPT !.bloques = d.bloques \o <<[d.bloques[b] EXCEPT !.n = 1]>>]

\* The sheet is edited and measured again; previa keeps the earlier metrics
AnularCelda ==
    /\ metricas_hoja # NADA
    /\ problemas_hoja = NADA
    /\ edicion = "ninguna"
    /\ \E b \in Bloques(df), c \in Cols(df) :
        /\ ~isna(Celda(df, b, c))
        /\ df' = AnularCeldaDe(df, b, c)
    /\ previa' = metricas_hoja
    /\ metricas_hoja' = calcular_metricas_calidad_hoja(df')
    /\ edicion' = "anular"
    /\ UNCHANGED <<session_state, ultimo, problemas_hoja, info_archivo, resultado_analisis, lecturas,
                   anterior, corridas>>

DuplicarFila ==
    /\ metricas_hoja # NADA
    /\ problemas_hoja = NADA
    /\ edicion = "ninguna"
    /\ \E b \in Bloques(df) : df' = DuplicarFilaDe(df, b)
    /\ previa' = metricas_hoja
    /\ metricas_hoja' = calcular_metricas_calidad_hoja(df')
    /\ edicion' = "duplicar"
    /\ UNCHANGED <<session_state, ultimo, problemas_hoja, info_archivo, resultado_analisis, lecturas,
                   anterior, corridas>>

NextHoja ==
    \/ CalcularMetricasHoja
    \/ DetectarProblemasHoja
    \/ AnularCelda
    \/ DuplicarFila

SpecHoja == InitHoja /\ [][NextHoja]_vars

-----------------------------------------------------------------------------
(* SpecSesion: the session of the page (src/app/main.py).                   *)

MaxMensajes == 2          \* questions asked in the chat

\* what the user uploads and the loader returns for it: an unreadable file,
\* files of one sheet, and a dict without the name of its sheet, the one
\* value here for which the analysis returns "error"
Subidas ==
    {ArchivoFallido, ArchivoSinNombre}
    \cup {InfoArchivo(<<t>>) :
            t \in DataFrames({N_Email, N_2024}, ValoresArchivo, 1, 1, {1}) \cup {ILEGIBLE}}

\* before inicializar_sesion ran the session has none of the keys
InitSesion ==
    /\ session_state = NADA
    /\ ultimo = "ninguno"
    /\ info_archivo = NADA
    /\ resultado_analisis = NADA
    /\ lecturas = <<>>
    /\ anterior = NADA
    /\ corridas = 0
    /\ df = NADA
    /\ metricas_hoja = NADA
    /\ problemas_hoja = NADA
    /\ previa = NADA
    /\ edicion = "ninguna"

\* inicializar_sesion (lines 79-94): the keys that are missing get their
\* first value; None is NADA
InicializarSesion ==
    /\ session_state' =
           IF session_state = NADA
           THEN [archivo_cargado |-> FALSE, info_archivo |-> NADA,
                 resultado_analisis |-> NADA, historial_chat |-> <<>>]
           ELSE session_state
    /\ ultimo' = "inicializar"
    /\ UNCHANGED <<info_archivo, resultado_analisis, lecturas, anterior, corridas,
                   df, metricas_hoja, problemas_hoja, previa, edicion>>

\* cargar_archivo that saves the loaded file in the session before it is
\* analysed
CargarArchivoGuardaAntes ==
    /\ session_state # NADA
    /\ \E valido \in BOOLEAN, info \in Subidas :
        \E r \in LecturasDeReloj(Len(info.hojas)) :
        \E resultado \in {analizar_archivo_completo(info, r)} :
            IF ~valido
            THEN /\ ultimo' = "archivo_invalido"
                 /\ UNCHANGED session_state
            ELSE IF ~info.exito
            THEN /\ ultimo' = "carga_fallida"
                 /\ UNCHANGED session_state
            ELSE IF resultado.con_error
            THEN /\ ultimo' = "analisis_fallido"
                 /\ session_state' = [session_state EXCEPT !.info_archivo = info]
            ELSE /\ ultimo' = "cargado"
                 /\ session_state' =
                        [session_state EXCEPT
                            !.info_archivo = info,
                            !.resultado_analisis = resultado,
                            !.archivo_cargado = TRUE]
    /\ UNCHANGED <<info_archivo, resultado_analisis, lecturas, anterior, corridas,
                   df, metricas_hoja, problemas_hoja, previa, edicion>>

\* cargar_archivo (lines 160-199) with a file chosen and the button pressed:
\* valido is what validar_archivo_excel says of the file, info what
\* cargar_excel_completo returns, r what the clock reads during the analysis
\* and resultado what analizar_archivo_completo returns, which is looked at
\* only when the file is valid and was loaded
CargarArchivo ==
    /\ session_state # NADA
    /\ \E valido \in BOOLEAN, info \in Subidas :
        \E r \in LecturasDeReloj(Len(info.hojas)) :
        \E resultado \in {analizar_archivo_completo(info, r)} :
            IF ~valido
            THEN /\ ultimo' = "archivo_invalido"
                 /\ UNCHANGED session_state
            ELSE IF ~info.exito
            THEN /\ ultimo' = "carga_fallida"
                 /\ UNCHANGED session_state
            ELSE IF resultado.con_error
            THEN /\ ultimo' = "analisis_fallido"
                 /\ UNCHANGED session_state
            ELSE /\ ultimo' = "cargado"
                 /\ session_state' =
                        [session_state EXCEPT
                            !.info_archivo = info,
                            !.resultado_analisis = resultado,
                            !.archivo_cargado = TRUE]
    /\ UNCHANGED <<info_archivo, resultado_analisis, lecturas, anterior, corridas,
                   df, metricas_hoja, problemas_hoja, previa, edicion>>

\* the button "Reiniciar Analisis" of mostrar_sidebar (lines 142-147)
ReiniciarAnalisis ==
    /\ session_state # NADA
    /\ session_state' =
           [session_state EXCEPT !.archivo_cargado = FALSE, !.info_archivo = NADA,
                                 !.resultado_analisis = NADA, !.historial_chat = <<>>]
    /\ ultimo' = "reinicio"
    /\ UNCHANGED <<info_archivo, resultado_analisis, lecturas, anterior, corridas,
                   df, metricas_hoja, problemas_hoja, previa, edicion>>

\* a question in mostrar_chat_interactivo (lines 560-593): the question and
\* then the answer, or the error in its place, are appended to the history
EnviarPregunta ==
    /\ session_state # NADA
    /\ Len(session_state.historial_chat) < 2 * MaxMensajes
    /\ \E exito \in BOOLEAN :
        session_state' =
            [session_state EXCEPT !.historial_chat =
                @ \o <<[tipo |-> "usuario", contenido |-> "pregunta"],
                       [tipo |-> "asistente",
                        contenido |-> IF exito THEN "respuesta" ELSE "error"]>>]
    /\ ultimo' = "pregunta"
    /\ UNCHANGED <<info_archivo, resultado_analisis, lecturas, anterior, corridas,
                   df, metricas_hoja, problemas_hoja, previa, edicion>>

NextSesion ==
    \/ InicializarSesion
    \/ CargarArchivo
    \/ ReiniciarAnalisis
    \/ EnviarPregunta

SpecSesion == InitSesion /\ [][NextSesion]_vars

-----------------------------------------------------------------------------
(* The properties.  What a property compares the program with is written    *)
(* here from the statement of the property, not from the definitions above. *)

Informe == resultado_analisis.k = "informe"
Altas == resultado_analisis.resumen_general.problemas_por_severidad.alta

\* (0.30*completitud + 0.35*exactitud + 0.15*unicidad + 0.20*consistencia)
SumaPonderada(m) ==
    RMul(Rat(1, 100),
         RAdd(RAdd(RMul(RInt(30), m.completitud), RMul(RInt(35), m.exactitud)),
              RAdd(RMul(RInt(15), m.unicidad), RMul(RInt(20), m.consistencia))))

Acotar(x) ==
    IF RLt(x, RInt(0)) THEN RInt(0) ELSE IF RLt(RInt(100), x) THEN RInt(100) ELSE x

\* clamp[0,100](SumaPonderada * (1 - min(0.30, 0.05 * A)))
FormulaPuntuacion(m, A) ==
    LET pen == IF 5 * A < 30 THEN Rat(5 * A, 100) ELSE Rat(30, 100)
    IN  Acotar(RMul(SumaPonderada(m), RSub(RInt(1), pen)))

\* the score the program gives the aggregate metrics of the run with A
\* problems of severity alta in the summary
PuntuacionCon(A) ==
    calcular_puntuacion_calidad(
        [resultado_analisis EXCEPT !.resumen_general.problemas_por_severidad.alta = A])

\* C1: for every sheet, each of completitud, exactitud, unicidad and
\* consistencia returned by _calcular_metricas_calidad_hoja is >= 0 and
\* <= 100, also when the computation fails inside and falls back.
C1_MetricasEnRango ==
    metricas_hoja # NADA =>
        \A x \in {"completitud", "exactitud", "unicidad", "consistencia"} :
            RLe(RInt(0), metricas_hoja[x]) /\ RLe(metricas_hoja[x], RInt(100))

\* a sheet with rows on which the computation raised and fell back
C1_Fallback ==
    /\ metricas_hoja # NADA
    /\ edicion = "ninguna"
    /\ NFilas(df) > 0
    /\ \E c \in Cols(df) : ~df.columnas[c].texto /\ \E b \in Bloques(df) : ~isna(Celda(df, b, c))
    /\ metricas_hoja.completitud = RInt(30)

\* C2: for a sheet with zero rows or zero columns,
\* _calcular_metricas_calidad_hoja returns 100 for each of the four metrics.
C2_VaciaTodoCien ==
    (metricas_hoja # NADA /\ edicion = "ninguna" /\ (NFilas(df) = 0 \/ NCols(df) = 0)) =>
        \A x \in {"completitud", "exactitud", "unicidad", "consistencia"} :
            metricas_hoja[x] = RInt(100)

\* C3: the overall quality score equals
\* clamp[0,100]((0.30*completitud + 0.35*exactitud + 0.15*unicidad +
\* 0.20*consistencia) * (1 - min(0.30, 0.05 * A))) of the aggregate metrics
\* and the count A of problems of severity alta of the summary: for the
\* score of the run, and for the score function given the metrics of the
\* run with any count A up to MaxAltas.
C3_PuntuacionSegunFormula ==
    Informe =>
        /\ resultado_analisis.puntuacion_calidad =
               FormulaPuntuacion(resultado_analisis.metricas_calidad_detalladas, Altas)
        /\ \A A \in 0..MaxAltas :
               PuntuacionCon(A) =
                   FormulaPuntuacion(resultado_analisis.metricas_calidad_detalladas, A)

\* a run whose score was lowered by the problems of severity alta
C3_ConPenalizacion ==
    /\ Informe
    /\ Altas >= 2
    /\ RLt(RInt(0), resultado_analisis.puntuacion_calidad)
    /\ RLt(resultado_analisis.puntuacion_calidad,
           SumaPonderada(resultado_analisis.metricas_calidad_detalladas))

\* C4: with the aggregate metrics held fixed, the score never increases when
\* the count of alta problems increases, it is never less than 70% of the
\* unpenalised weighted sum, and it is that 70% from 6 alta problems on.
C4_PuntuacionMonotona ==
    Informe =>
        LET suma == SumaPonderada(resultado_analisis.metricas_calidad_detalladas)
            piso == RMul(Rat(70, 100), suma)
        IN  /\ \A A \in 0..(MaxAltas - 1) : RLe(PuntuacionCon(A + 1), PuntuacionCon(A))
            /\ \A A \in 0..MaxAltas : RLe(piso, PuntuacionCon(A))
            /\ \A A \in 6..MaxAltas : PuntuacionCon(A) = piso
            /\ \A A \in 0..5 : RLt(RInt(0), suma) => RLt(piso, PuntuacionCon(A))

\* a run with alta problems whose score falls strictly to the 70% floor
C4_BajaHastaElPiso ==
    /\ Informe
    /\ Altas >= 1
    /\ RLt(PuntuacionCon(MaxAltas), PuntuacionCon(Altas))
    /\ RLt(PuntuacionCon(Altas), PuntuacionCon(0))

\* the records of a list whose severity is sev
DeSeveridad(probs, sev) == Len(SelectSeq(probs, LAMBDA p : p.severidad = sev))

\* C5: in the summary of _generar_resumen_general the counts of alta, media
\* and baja add up to total_problemas, and in every sheet report the
\* problems of severity alta, media and baja are all of the sheet's problems.
C5_SeveridadesSuman ==
    Informe =>
        LET r == resultado_analisis.resumen_general
        IN  /\ r.problemas_por_severidad.alta + r.problemas_por_severidad.media
                   + r.problemas_por_severidad.baja = r.total_problemas
            /\ \A i \in DOMAIN resultado_analisis.analisis_por_hoja :
                   LET probs == resultado_analisis.analisis_por_hoja[i].problemas
                   IN  DeSeveridad(probs, "alta") + DeSeveridad(probs, "media")
                           + DeSeveridad(probs, "baja") = Len(probs)

\* a summary with problems of both severities the detector emits, one of
\* them the record of a failed rule
C5_AltasYMedias ==
    /\ Informe
    /\ Altas >= 1
    /\ resultado_analisis.resumen_general.problemas_por_severidad.media >= 1
    /\ \E i \in DOMAIN resultado_analisis.analisis_por_hoja :
           \E j \in DOMAIN resultado_analisis.analisis_por_hoja[i].problemas :
               resultado_analisis.analisis_por_hoja[i].problemas[j].tipo = "error_analisis"

\* C6: replacing one non-null cell of a sheet by null, every other cell
\* unchanged, never makes completitud larger than before, whatever the
\* replaced value was.
C6_CompletitudMonotona ==
    edicion = "anular" => RLe(metricas_hoja.completitud, previa.completitud)

\* C7: appending an exact copy of one of the rows of a non-empty sheet never
\* makes unicidad larger than before, also with a key column that has nulls
\* and with values that match a severe pattern.
C7_UnicidadMonotona ==
    edicion = "duplicar" => RLe(metricas_hoja.unicidad, previa.unicidad)

\* C8, as stated: two runs of analizar_archivo_completo on the same input
\* return identical reports, whatever the time at each run.
C8_CorridasIdenticas ==
    corridas = 2 => resultado_analisis = anterior.resultado

\* the class of rule 6 (under 15, 15 to 80, over 80) and round(edad, 1) of
\* a person born on day nac, on day ahora
ClaseDeEdad(nac, ahora) ==
    IF 4 * (ahora - nac) < 15 * 1461 THEN "menor"
    ELSE IF 4 * (ahora - nac) > 80 * 1461 THEN "mayor" ELSE "probable"
EdadRedondeada(nac, ahora) == (80 * (ahora - nac) + 1461) \div 2922

\* every date of sheet d has the same class and the same rounded age on
\* both days
MismasEdades(d, t1, t2) ==
    \A b \in Bloques(d), c \in Cols(d) :
        Celda(d, b, c).k = "ts" =>
            /\ ClaseDeEdad(Celda(d, b, c).dia, t1) = ClaseDeEdad(Celda(d, b, c).dia, t2)
            /\ EdadRedondeada(Celda(d, b, c).dia, t1) = EdadRedondeada(Celda(d, b, c).dia, t2)

RelojesEquivalentes ==
    \A i \in DOMAIN info_archivo.hojas :
        i \in DOMAIN info_archivo.dataframes =>
            MismasEdades(info_archivo.dataframes[i], anterior.lecturas[i], lecturas[i])

\* C8, amended: two runs of analizar_archivo_completo on the same input
\* return identical reports when, between the two readings of the clock,
\* no birth date of the input changes its age class or its age rounded to
\* one decimal.
C8_IdenticasSiMismasEdades ==
    (corridas = 2 /\ RelojesEquivalentes) => resultado_analisis = anterior.resultado

\* two runs at different times on an input with a flagged birth date
C8_OtroDiaMismoInforme ==
    /\ corridas = 2
    /\ Informe
    /\ RelojesEquivalentes
    /\ \E i \in DOMAIN lecturas : lecturas[i] # anterior.lecturas[i]
    /\ \E i \in DOMAIN resultado_analisis.analisis_por_hoja :
           \E j \in DOMAIN resultado_analisis.analisis_por_hoja[i].problemas :
               resultado_analisis.analisis_por_hoja[i].problemas[j].tipo = "edades_improbables"

\* the sheets of the file the loop of the run analyses, in order
Elegibles ==
    SelectSeq([i \in DOMAIN info_archivo.hojas |-> i],
              LAMBDA i : /\ i \in DOMAIN info_archivo.dataframes
                         /\ info_archivo.hojas[i].tiene_datos)

\* a cell of the sheet holds a value pandas cannot hash
HojaLanza(d) == \E b \in Bloques(d), c \in Cols(d) : Celda(d, b, c) = Obj

\* C9: when the analysis of one sheet raises, the report of that sheet has
\* an error entry and the metrics 30 / 25 / 40 / 35, every other eligible
\* sheet of the run is in analisis_por_hoja with its own computed metrics,
\* and the run returns no top-level error.
C9_FalloAislado ==
    (corridas > 0 /\ info_archivo.exito
        /\ \E j \in DOMAIN Elegibles : HojaLanza(info_archivo.dataframes[Elegibles[j]])) =>
        /\ Informe
        /\ ~resultado_analisis.con_error
        /\ Len(resultado_analisis.analisis_por_hoja) = Len(Elegibles)
        /\ \A j \in DOMAIN Elegibles :
               LET a == resultado_analisis.analisis_por_hoja[j]
                   d == info_archivo.dataframes[Elegibles[j]]
               IN  /\ a.nombre = info_archivo.hojas[Elegibles[j]].nombre
                   /\ IF HojaLanza(d)
                      THEN /\ a.con_error
                           /\ a.metricas_calidad =
                                  [completitud |-> RInt(30), exactitud |-> RInt(25),
                                   unicidad |-> RInt(40), consistencia |-> RInt(35)]
                      ELSE /\ ~a.con_error
                           /\ a.metricas_calidad = calcular_metricas_calidad_hoja(d)

\* a run whose first sheet failed and whose second sheet has its own metrics
C9_UnaFallaOtraNo ==
    /\ Informe
    /\ Len(resultado_analisis.analisis_por_hoja) = 2
    /\ resultado_analisis.analisis_por_hoja[1].con_error
    /\ ~resultado_analisis.analisis_por_hoja[2].con_error
    /\ resultado_analisis.analisis_por_hoja[2].metricas_calidad.completitud # RInt(30)

\* C10: when one of the eight rules raises on a sheet, the list has an
\* error_analisis record of severity alta and every later rule whose
\* condition holds on the sheet still has its record in the list.
C10_ReglasPosteriores ==
    (problemas_hoja # NADA) =>
        \E ahora \in Relojes :
            LET reglas == ReglasHoja(df, ahora)
                lista == problemas_hoja.lista
                EnLista(p) == \E k \in DOMAIN lista : lista[k] = p
            IN  \A i \in DOMAIN reglas :
                    reglas[i].lanza =>
                        /\ \E k \in DOMAIN lista :
                               /\ lista[k].tipo = "error_analisis"
                               /\ lista[k].severidad = "alta"
                        /\ \A j \in (i + 1)..Len(reglas) :
                               \A n \in DOMAIN reglas[j].probs : EnLista(reglas[j].probs[n])

SinFallo ==
    SelectSeq(Elegibles,
              LAMBDA i : /\ ~HojaLanza(info_archivo.dataframes[i])
                         /\ ~LanzaMetricas(info_archivo.dataframes[i]))

\* C12: each aggregate metric is the arithmetic mean of that metric over
\* exactly the analysed sheets whose analysis did not fail; a sheet whose
\* metric computation fell back to 30 / 25 / 40 / 35 contributes nothing.
C12_MediaDeLasSinFallo ==
    (Informe /\ SinFallo # <<>>) =>
        \A criterio \in {"completitud", "exactitud", "unicidad", "consistencia"} :
            resultado_analisis.metricas_calidad_detalladas[criterio] =
                Mean([j \in DOMAIN SinFallo |->
                        calcular_metricas_calidad_hoja(
                            info_archivo.dataframes[SinFallo[j]])[criterio]])

\* C13: every call of analizar_archivo_completo, whatever its input, returns
\* a report that has the aggregate metrics, the summary and a score.
C13_SiempreInforme ==
    corridas > 0 =>
        {"metricas_calidad_detalladas", "resumen_general", "puntuacion_calidad"}
            \subseteq DOMAIN resultado_analisis

Permutaciones(n) ==
    {p \in [1..n -> 1..n] : \A i, j \in 1..n : i # j => p[i] # p[j]}

\* the report of the same tables with the list of sheets in the order p,
\* each sheet analysed at the time it was analysed in the run
InformePermutado(p) ==
    analizar_archivo_completo(
        [info_archivo EXCEPT !.hojas =
            [i \in DOMAIN info_archivo.hojas |-> info_archivo.hojas[p[i]]]],
        [i \in DOMAIN lecturas |-> lecturas[p[i]]])

Agregado(informe) ==
    <<informe.metricas_calidad_detalladas, informe.resumen_general,
      informe.puntuacion_calidad>>

\* C16: for every permutation of the list of sheets, the aggregate metrics,
\* the summary and the score are the same.
C16_OrdenDeHojas ==
    (corridas > 0 /\ info_archivo.exito) =>
        \A p \in Permutaciones(Len(info_archivo.hojas)) :
            Agregado(InformePermutado(p)) = Agregado(resultado_analisis)

\* a run of two sheets without error whose metrics and problems differ
C16_DosHojasDistintas ==
    /\ Informe
    /\ Len(resultado_analisis.analisis_por_hoja) = 2
    /\ \A i \in 1..2 : ~resultado_analisis.analisis_por_hoja[i].con_error
    /\ resultado_analisis.analisis_por_hoja[1].metricas_calidad #
           resultado_analisis.analisis_por_hoja[2].metricas_calidad
    /\ Len(resultado_analisis.analisis_por_hoja[1].problemas) #
           Len(resultado_analisis.analisis_por_hoja[2].problemas)

ProblematicasColumna(d, c) ==
    SumaSeq([b \in Bloques(d) |->
        IF CeldaProblematica(Celda(d, b, c)) THEN d.bloques[b].n ELSE 0])

\* C14: for every column of a sheet the detector has examined, the total
\* rule 1 counts for the column (nulls + empty + placeholder values) is the
\* number of cells of the column the completeness computation counts as
\* problematic.
C14_MismaClasificacion ==
    problemas_hoja # NADA =>
        \A c \in Cols(df) : TotalFaltantes(df, c) = ProblematicasColumna(df, c)

\* C15: the detector applies the phone-length rule resp. the malformed-email
\* rule only to a column whose accuracy role (the first match of the chain
\* date > code > phone > gender > email > institution) is phone resp. email.
C15_MismoRol ==
    problemas_hoja # NADA =>
        \A i \in DOMAIN problemas_hoja.lista :
            LET p == problemas_hoja.lista[i]
            IN  /\ p.tipo = "longitud_telefono_anormal" =>
                       RolExactitud(LowerNombre(p.columna)) = "telefono"
                /\ p.tipo = "emails_malformados" =>
                       RolExactitud(LowerNombre(p.columna)) = "email"

\* P of a sheet: its cells that are null, an empty or blank str, or a
\* placeholder token
CeldasP(d) == SumaSeq([c \in Cols(d) |-> ProblematicasColumna(d, c)])

\* 100 * (1 - P / (rows * columns))
FormulaCompletitud(d) ==
    RMul(RInt(100), RSub(RInt(1), Rat(CeldasP(d), NFilas(d) * NCols(d))))

\* 1 - min(0.5, S / (0.1 * rows)), S the severe pattern matches of the sheet
UnoMenosPenalizacion(d) ==
    RSub(RInt(1), RMin(Rat(1, 2), Rat(10 * problemas_graves(d), NFilas(d))))

\* C18 as stated: for a sheet with rows and columns, completitud is
\* 100 * (1 - P / (rows * columns)).
C18_CompletitudSinPenalizacion ==
    (metricas_hoja # NADA /\ NFilas(df) > 0 /\ NCols(df) > 0) =>
        metricas_hoja.completitud = FormulaCompletitud(df)

\* C18: for a sheet with rows and columns, completitud is
\* 100 * (1 - P / (rows * columns)) multiplied by one minus the penalty factor
\* min(0.5, S / (0.1 * rows)) of the severe pattern matches, and 30 when the
\* computation raises and falls back.
C18_CompletitudConPenalizacion ==
    (metricas_hoja # NADA /\ NFilas(df) > 0 /\ NCols(df) > 0) =>
        metricas_hoja.completitud =
            IF LanzaMetricas(df) THEN RInt(30)
            ELSE RMul(FormulaCompletitud(df), UnoMenosPenalizacion(df))

\* the sheet of 10 rows and 2 columns, 6 nulls in one column and the other
\* fully populated, measured: completitud 70
C18_EscenarioSetenta ==
    /\ metricas_hoja # NADA
    /\ edicion = "ninguna"
    /\ df = [columnas |-> <<N_nota, N_Email>>,
             bloques |-> <<[celdas |-> <<Nulo, V_correo>>, n |-> 6],
                           [celdas |-> <<V_7, V_correo>>, n |-> 4]>>]
    /\ metricas_hoja.completitud = RInt(70)

\* 100 * distinct_non_null / non_null of the first column of d whose name
\* contains campo; 100 when there is no such column or it has no value
UnicidadDeClave(d, campo) ==
    LET con_campo == {c \in Cols(d) : /\ d.columnas[c].texto
                                       /\ Contiene(campo, LowerNombre(d.columnas[c]))}
    IN  IF con_campo = {} THEN RInt(100)
        ELSE LET primera == CHOOSE c \in con_campo : \A o \in con_campo : c <= o
                 no_nulos == {b \in Bloques(d) : ~isna(Celda(d, b, primera))}
                 cuantos == SumaSeq([b \in Bloques(d) |->
                                IF b \in no_nulos THEN d.bloques[b].n ELSE 0])
             IN  IF cuantos = 0 THEN RInt(100)
                 ELSE Rat(100 * Cardinality({Celda(d, b, primera) : b \in no_nulos}),
                          cuantos)

\* K: the minimum over documento, id_estudiante and email
ClaveK(d) ==
    RMin(UnicidadDeClave(d, K_documento),
         RMin(UnicidadDeClave(d, K_id_estudiante), UnicidadDeClave(d, K_email)))

\* min(100 * distinct_rows / rows, K)
FormulaUnicidad(d) ==
    RMin(Rat(100 * Cardinality({d.bloques[b].celdas : b \in Bloques(d)}), NFilas(d)),
         ClaveK(d))

\* C19 as stated, on the sheets whose column names are all text: for a
\* sheet with rows and columns, unicidad is min(100 * distinct_rows / rows, K).
C19_UnicidadSinPenalizacion ==
    (/\ metricas_hoja # NADA /\ NFilas(df) > 0 /\ NCols(df) > 0
     /\ \A c \in Cols(df) : df.columnas[c].texto) =>
        metricas_hoja.unicidad = FormulaUnicidad(df)

\* C19: for a sheet with rows and columns, unicidad is
\* min(100 * distinct_rows / rows, K) multiplied by one minus the penalty
\* factor of the severe pattern matches, where a key column without a
\* non-null value does not constrain K, and 40 when the computation raises
\* and falls back.
C19_UnicidadConPenalizacion ==
    (metricas_hoja # NADA /\ NFilas(df) > 0 /\ NCols(df) > 0) =>
        metricas_hoja.unicidad =
            IF LanzaMetricas(df) THEN RInt(40)
            ELSE RMul(FormulaUnicidad(df), UnoMenosPenalizacion(df))

\* the single-column sheet of 5 identical numbers, measured: unicidad 20
C19_CincoIguales ==
    /\ metricas_hoja # NADA
    /\ edicion = "ninguna"
    /\ df = [columnas |-> <<N_nota>>, bloques |-> <<[celdas |-> <<V_7>>, n |-> 5]>>]
    /\ metricas_hoja.unicidad = RInt(20)

\* the columns of d whose name contains 'email' or 'correo' in any letter case
ColumnasDeEmail(d) ==
    {c \in Cols(d) : /\ d.columnas[c].texto
                     /\ \/ Contiene(K_email, LowerNombre(d.columnas[c]))
                        \/ Contiene(K_correo, LowerNombre(d.columnas[c]))}

\* the non-null values of column c that fail the email pattern
EmailsQueFallan(d, c) ==
    SumaSeq([b \in Bloques(d) |->
        IF ~isna(Celda(d, b, c)) /\ ~EmailValido(Strip(StrValor(d, c, Celda(d, b, c))))
        THEN d.bloques[b].n ELSE 0])

\* C20: for a sheet with a column named after email or correo, the list has
\* exactly one emails_malformados record when a non-null value of the first
\* such column fails the email pattern, of severity media, counting the
\* failing values and showing the first min(5, count) of them, and no such
\* record otherwise.
C20_UnRegistroDeEmails ==
    (problemas_hoja # NADA /\ ColumnasDeEmail(df) # {}) =>
        LET primera == CHOOSE c \in ColumnasDeEmail(df) :
                           \A o \in ColumnasDeEmail(df) : c <= o
            fallan == EmailsQueFallan(df, primera)
            registros == SelectSeq(problemas_hoja.lista,
                                   LAMBDA p : p.tipo = "emails_malformados")
        IN  IF fallan > 0
            THEN /\ Len(registros) = 1
                 /\ registros[1].severidad = "media"
                 /\ registros[1].columna = df.columnas[primera]
                 /\ registros[1].valor = fallan
                 /\ Len(registros[1].ejemplos) = Min(5, fallan)
            ELSE registros = <<>>

\* C21: the list of a sheet holds at most one campo_obligatorio_faltante
\* record for any one column.
C21_UnaVezPorColumna ==
    problemas_hoja # NADA =>
        \A c \in Cols(df) :
            Len(SelectSeq(problemas_hoja.lista,
                          LAMBDA p : /\ p.tipo = "campo_obligatorio_faltante"
                                     /\ p.columna = df.columnas[c])) <= 1

\* the columns of d that have at least one non-null value, in order
ColumnasConValores(d) ==
    SelectSeq([c \in Cols(d) |-> c],
              LAMBDA c : \E b \in Bloques(d) : ~isna(Celda(d, b, c)))

\* C22: exactitud, before the whole-sheet penalty, is the mean of the
\* per-column scores over the columns that have a non-null value; a column
\* without data takes no part in the mean.
C22_SoloColumnasConDatos ==
    (/\ metricas_hoja # NADA /\ NFilas(df) > 0 /\ NCols(df) > 0
     /\ ~LanzaMetricas(df) /\ ColumnasConValores(df) # <<>>) =>
        metricas_hoja.exactitud =
            RMul(Mean([i \in DOMAIN ColumnasConValores(df) |->
                        RInt(exactitud_columna(df, ColumnasConValores(df)[i]))]),
                 UnoMenosPenalizacion(df))

\* The non-null numbers of column c in ascending order: the number at
\* position k, counted from 0
NumeroEnPosicion(d, c, k) ==
    LET con_valor == {b \in Bloques(d) : ~isna(Celda(d, b, c))}
        Hasta(v, estricto) ==
            SumaSeq([b \in Bloques(d) |->
                IF b \in con_valor /\ (IF estricto THEN Celda(d, b, c).n < v
                                       ELSE Celda(d, b, c).n <= v)
                THEN d.bloques[b].n ELSE 0])
    IN  CHOOSE v \in {Celda(d, b, c).n : b \in con_valor} :
            Hasta(v, TRUE) <= k /\ k < Hasta(v, FALSE)

\* four times the quantile of order cuartos / 4 of column c, by linear
\* interpolation between the two nearest positions
CuartilPorCuatro(d, c, cuartos) ==
    LET n == LenSerie(dropna(d, c))
        abajo == (cuartos * (n - 1)) \div 4
        resto == (cuartos * (n - 1)) % 4
    IN  IF resto = 0 THEN 4 * NumeroEnPosicion(d, c, abajo)
        ELSE 4 * NumeroEnPosicion(d, c, abajo)
             + resto * (NumeroEnPosicion(d, c, abajo + 1) - NumeroEnPosicion(d, c, abajo))

\* the values of column c outside [Q1 - 3 * IQR, Q3 + 3 * IQR]
Atipicos(d, c) ==
    LET q1 == CuartilPorCuatro(d, c, 1)
        q3 == CuartilPorCuatro(d, c, 3)
        Fuera(v) == 4 * v.n < q1 - 3 * (q3 - q1) \/ 4 * v.n > q3 + 3 * (q3 - q1)
    IN  Cuenta(dropna(d, c), Fuera)

\* C23: on a sheet of one numeric column without a role and with more than
\* 3 non-null values, the accuracy score is 75 when more than 10% of the
\* values lie outside [Q1 - 3 * IQR, Q3 + 3 * IQR] and 100 otherwise.
C23_AtipicosDescuentan ==
    (/\ metricas_hoja # NADA /\ NCols(df) = 1
     /\ df.columnas[1] = N_nota
     /\ ClasesCol(df, 1) = {"num"}
     /\ LenSerie(dropna(df, 1)) > 3) =>
        metricas_hoja.exactitud =
            IF 10 * Atipicos(df, 1) > LenSerie(dropna(df, 1)) THEN RInt(75) ELSE RInt(100)

\* the roles in their order of precedence, each with the texts that name it
PrecedenciaDeRoles ==
    << [rol |-> "fecha", claves |-> {<<"f", "e", "c", "h", "a">>}],
       [rol |-> "codigo", claves |-> {<<"c", "o", "d", "i", "g", "o">>, <<"i", "d", "_">>}],
       [rol |-> "telefono", claves |-> {<<"t", "e", "l", "e", "f", "o", "n", "o">>,
                                        <<"c", "e", "l", "u", "l", "a", "r">>}],
       [rol |-> "genero", claves |-> {<<"g", "e", "n", "e", "r", "o">>}],
       [rol |-> "email", claves |-> {<<"e", "m", "a", "i", "l">>,
                                     <<"c", "o", "r", "r", "e", "o">>}],
       [rol |-> "sede", claves |-> {<<"s", "e", "d", "e">>,
                                    <<"i", "n", "s", "t", "i", "t", "u", "c", "i", "o", "n">>}] >>

\* the first role of the order that the name matches, in any letter case
PrimerRol(nom) ==
    LET coinciden == {i \in DOMAIN PrecedenciaDeRoles :
                        \E clave \in PrecedenciaDeRoles[i].claves :
                            Contiene(clave, Lower(nom.s))}
    IN  IF coinciden = {} THEN "ninguno"
        ELSE PrecedenciaDeRoles[CHOOSE i \in coinciden : \A o \in coinciden : i <= o].rol

\* the score of column c when only the deductions of its first role, and
\* the text validation of an object column, are taken off 100
PuntajeDelPrimerRol(d, c) ==
    LET PorRol(v) == DeduccionRol(PrimerRol(d.columnas[c]), Strip(StrValor(d, c, v)))
        PorTexto(v) == DeduccionTexto(StrValor(d, c, v))
    IN  Max(0, 100 - Suma(dropna(d, c), PorRol)
                   - (IF EsObject(d, c) THEN Suma(dropna(d, c), PorTexto) ELSE 0))

\* C24: on a sheet whose columns all have data, exactitud is the mean of the
\* column scores, each 100 less the deductions of the one role the column
\* name matches first in the order date, code, phone, gender, email,
\* institution, never below 0, times the whole-sheet penalty.
C24_UnSoloRol ==
    (/\ metricas_hoja # NADA /\ NFilas(df) > 0 /\ NCols(df) > 0
     /\ ~LanzaMetricas(df)
     /\ \A c \in Cols(df) : \E b \in Bloques(df) : ~isna(Celda(df, b, c))) =>
        metricas_hoja.exactitud =
            RMul(Mean([c \in Cols(df) |-> RInt(PuntajeDelPrimerRol(df, c))]),
                 UnoMenosPenalizacion(df))

\* a column named 'fecha_telefono' holding 'bUD', scored as a date: 85,
\* halved by the penalty
C24_FechaAntesQueTelefono ==
    /\ metricas_hoja # NADA
    /\ edicion = "ninguna"
    /\ df = [columnas |-> <<N_fecha_telefono>>, bloques |-> <<[celdas |-> <<V_bUD>>, n |-> 1]>>]
    /\ metricas_hoja.exactitud = Rat(85, 2)

\* the four metrics of d as computed before the penalty step
SinPenalizar(d) ==
    [completitud |-> completitud_hoja(d), exactitud |-> exactitud_hoja(d),
     unicidad |-> unicidad_hoja(d), consistencia |-> consistencia_hoja(d)]

\* the number of non-null cells of d that match a severe pattern: a value
\* holding 'bUD', 'j025', 'x025' or 'n025', 'hoy' in a column named after
\* 'fecha', or a value holding fifteen 9s
Severos(d) ==
    SumaSeq([c \in Cols(d) |->
        SumaSeq([b \in Bloques(d) |->
            LET v == Celda(d, b, c)
                t == IF isna(v) THEN <<>> ELSE Strip(StrValor(d, c, v))
            IN  IF /\ ~isna(v)
                   /\ \/ \E p \in {<<"b", "U", "D">>, <<"j", "0", "2", "5">>,
                                    <<"x", "0", "2", "5">>, <<"n", "0", "2", "5">>} :
                             Contiene(p, t)
                      \/ t = <<"h", "o", "y">> /\ Contiene(<<"f", "e", "c", "h", "a">>,
                                                           Lower(d.columnas[c].s))
                      \/ Contiene([i \in 1..15 |-> "9"], t)
                THEN d.bloques[b].n ELSE 0])])

\* C25: with S > 0 severe matches in a sheet of R rows each of the four
\* metrics is its unpenalised value times 1 - min(0.5, S / (0.1 * R)), so at
\* least half of it; with S = 0 the four metrics are the unpenalised values.
C25_PenalizacionProporcional ==
    (metricas_hoja # NADA /\ NFilas(df) > 0 /\ NCols(df) > 0 /\ ~LanzaMetricas(df)) =>
        LET S == Severos(df)
            antes == SinPenalizar(df)
            resto == RSub(RInt(1), RMin(Rat(1, 2), Rat(10 * S, NFilas(df))))
        IN  /\ metricas_hoja = [x \in DOMAIN antes |-> RMul(antes[x], resto)]
            /\ \A x \in DOMAIN antes :
                   /\ RLe(RMul(Rat(1, 2), antes[x]), metricas_hoja[x])
                   /\ S = 0 => metricas_hoja[x] = antes[x]

\* a sheet of 21 rows with one severe match: the factor is 10/21, under the cap
C25_BajoElTope ==
    /\ metricas_hoja # NADA
    /\ ~LanzaMetricas(df)
    /\ NFilas(df) = 21
    /\ Severos(df) = 1
    /\ metricas_hoja.completitud = RMul(SinPenalizar(df).completitud, Rat(11, 21))
    /\ metricas_hoja.completitud # RInt(0)

\* the datos_faltantes_o_invalidos records of the list for column c
RegistrosDeFaltantes(c) ==
    SelectSeq(problemas_hoja.lista,
              LAMBDA p : /\ p.tipo = "datos_faltantes_o_invalidos"
                         /\ p.columna = df.columnas[c])

\* C26: for every column of a sheet with rows, the list has a
\* datos_faltantes_o_invalidos record for the column iff its null, empty and
\* placeholder cells are strictly more than 10% of the rows, of severity alta
\* iff they are strictly more than 30% and media otherwise.
C26_UmbralesDeFaltantes ==
    (problemas_hoja # NADA /\ NFilas(df) > 0) =>
        \A c \in Cols(df) :
            LET P == ProblematicasColumna(df, c)
            IN  IF 100 * P > 10 * NFilas(df)
                THEN /\ Len(RegistrosDeFaltantes(c)) = 1
                     /\ RegistrosDeFaltantes(c)[1].severidad =
                            IF 100 * P > 30 * NFilas(df) THEN "alta" ELSE "media"
                ELSE RegistrosDeFaltantes(c) = <<>>

\* the records of the list of one tipo
RegistrosDeTipo(tipo) == SelectSeq(problemas_hoja.lista, LAMBDA p : p.tipo = tipo)

\* C27: a filas_vacias record comes with a filas_casi_vacias record whose
\* count is at least as large, and a sheet of at most 2 columns and at least
\* one row always has a filas_casi_vacias record, counting every row.
C27_CasiVaciasSiempre ==
    problemas_hoja # NADA =>
        /\ RegistrosDeTipo("filas_vacias") # <<>> =>
               /\ RegistrosDeTipo("filas_casi_vacias") # <<>>
               /\ RegistrosDeTipo("filas_casi_vacias")[1].valor
                      >= RegistrosDeTipo("filas_vacias")[1].valor
        /\ (NCols(df) <= 2 /\ NFilas(df) >= 1) =>
               /\ Len(RegistrosDeTipo("filas_casi_vacias")) = 1
               /\ RegistrosDeTipo("filas_casi_vacias")[1].valor = NFilas(df)

\* the first column of d whose name contains campo (0: none)
PrimeraDeClave(d, campo) ==
    LET con_campo == {c \in Cols(d) : /\ d.columnas[c].texto
                                      /\ Contiene(campo, Lower(d.columnas[c].s))}
    IN  IF con_campo = {} THEN 0
        ELSE CHOOSE c \in con_campo : \A o \in con_campo : c <= o

\* column c of d has fewer distinct non-null values than non-null values
ConRepetidos(d, c) ==
    \E b \in Bloques(d) :
        /\ ~isna(Celda(d, b, c))
        /\ \/ d.bloques[b].n > 1
           \/ \E o \in Bloques(d) : o # b /\ Celda(d, o, c) = Celda(d, b, c)

\* C28: for each key name, the detector's list has a
\* duplicados_en_campo_unico record for the first column named after the key
\* iff the uniqueness computation, run on the same sheet, reaches that
\* column and finds fewer distinct non-null values than non-null values.
C28_DuplicadosYUnicidad ==
    (metricas_hoja # NADA /\ problemas_hoja # NADA) =>
        \A campo \in {K_documento, K_id_estudiante, K_email} :
            LET primera == PrimeraDeClave(df, campo)
            IN  primera > 0 =>
                    ((\E i \in DOMAIN problemas_hoja.lista :
                        /\ problemas_hoja.lista[i].tipo = "duplicados_en_campo_unico"
                        /\ problemas_hoja.lista[i].columna = df.columnas[primera])
                     <=> (~LanzaMetricas(df) /\ ConRepetidos(df, primera)))
\* the 'alta' count _calcular_puntuacion_calidad reads from a summary: 0
\* when the summary has no count
AltasDelResumen(resumen) ==
    IF "problemas_por_severidad" \in DOMAIN resumen
    THEN resumen.problemas_por_severidad.alta ELSE 0

\* C29: in every report returned by analizar_archivo_completo that carries
\* aggregate metrics, also the one returned after an exception reached the
\* handler of the function, puntuacion_calidad equals the score formula
\* applied to the report's own metricas_calidad_detalladas and to the 'alta'
\* count of its own resumen_general.
C29_PuntuacionDelInforme ==
    (corridas > 0 /\ "metricas_calidad_detalladas" \in DOMAIN resultado_analisis) =>
        resultado_analisis.puntuacion_calidad =
            FormulaPuntuacion(resultado_analisis.metricas_calidad_detalladas,
                              AltasDelResumen(resultado_analisis.resumen_general))

\* the same restricted to the reports that did not pass through the handler
C29_SinManejador ==
    (corridas > 0 /\ Informe) =>
        resultado_analisis.puntuacion_calidad =
            FormulaPuntuacion(resultado_analisis.metricas_calidad_detalladas,
                              AltasDelResumen(resultado_analisis.resumen_general))
\* the three variables of the session the analysis writes
TresDeLaSesion(s) == <<s.archivo_cargado, s.info_archivo, s.resultado_analisis>>

\* C30: in the session of the page, after any sequence of uploads, failed
\* loads, failed analyses, questions and resets, archivo_cargado is true only
\* if info_archivo is a loaded file with exito true and resultado_analisis is
\* a report without "error"; a failed load or a failed analysis leaves
\* archivo_cargado, info_archivo and resultado_analisis as they were; and the
\* reset leaves archivo_cargado false, info_archivo and resultado_analisis
\* None and the chat history empty.
C30_SesionCoherente ==
    /\ []((session_state # NADA /\ session_state.archivo_cargado) =>
            /\ session_state.info_archivo # NADA
            /\ session_state.info_archivo.exito
            /\ session_state.resultado_analisis # NADA
            /\ session_state.resultado_analisis.k # "invalido"
            /\ ~session_state.resultado_analisis.con_error)
    /\ [][(ultimo' \in {"archivo_invalido", "carga_fallida", "analisis_fallido"} =>
                TresDeLaSesion(session_state') = TresDeLaSesion(session_state))
           /\ (ultimo' = "reinicio" =>
                session_state' = [archivo_cargado |-> FALSE, info_archivo |-> NADA,
                                  resultado_analisis |-> NADA, historial_chat |-> <<>>])]_vars

\* a file is loaded, a question was asked, and the analysis of the next
\* upload has just failed
C30_FalloConArchivoCargado ==
    /\ session_state # NADA
    /\ session_state.archivo_cargado
    /\ session_state.historial_chat # <<>>
    /\ ultimo = "analisis_fallido"

=============================================================================
